---- MODULE Spec2Model ----
(***************************************************************************)
(* perf-test: the load generation engine (internal/engine), its scheduler  *)
(* (internal/scheduler), VU workers (internal/worker), the token-bucket    *)
(* limiter (internal/ratelimit) and the metrics collector                  *)
(* (internal/metrics), as one state machine.                               *)
(*                                                                         *)
(* Time is counted in scheduler ticks (one unit = 100 ms).  Every          *)
(* goroutine is a process with a program counter; a blocking channel       *)
(* operation or select is one action per case that can fire.               *)
(***************************************************************************)
EXTENDS Integers, Sequences, FiniteSets, Bags, TLC

\* ---------------------------------------------------------------- bounds
\* Requests the whole run may start (caps the request-id counter).
MaxRequests == 2
\* Largest number of time units between two scheduler ticks that are
\* delivered (the Go ticker drops ticks for a slow receiver).
MaxTickGap == 1

\* Longest stage and highest target of the stage lists targetAt is applied to.
MaxStageDur == 3
MaxStageTarget == 3
\* Record calls made on a Collector that is used on its own
MaxRecords == 3
\* Endpoints of an Executor that is used on its own, and their largest weight
MaxEndpoints == 3
MaxWeight == 2
MaxTests == 2

\* ------------------------------------------------------ program constants
\* resultCh := make(chan metrics.Result, 1000)
ResultChCap == 1000
\* targetCh := make(chan int, 10)
TargetChCap == 10
\* significant bits of a float64 (pct and the interpolation are float64)
MantissaBits == 53
\* the number of durations of the known data set of the percentile test
KnownSize == 100

\* ------------------------------------------------------------ load profiles
\* config.Stage: duration (in ticks), target, ramp.
Stage(d, t, r) == [duration |-> d, target |-> t, ramp |-> r]

\* ramp 0 -> 2 -> 0, linear: the scheduler emits 1, 2, 1, 0
ProfileRamp == << Stage(2, 2, "linear"), Stage(2, 0, "linear") >>
\* two step stages, the last with a non-zero target: 2, 1
ProfileStep == << Stage(1, 2, "step"), Stage(1, 1, "step") >>
\* a pause between two equal levels: 1, 0, 1
ProfilePause == << Stage(1, 1, "step"), Stage(1, 0, "step"), Stage(1, 1, "step") >>

\* one step stage held for three ticks at a non-zero level
ProfileHold == << Stage(3, 2, "step") >>
\* one linear stage that ends at a non-zero level: 1, 2, then the final 0
ProfileClimb == << Stage(2, 2, "linear") >>
\* a ramp with more distinct values than targetCh has room for
ProfileLong == << Stage(12, 12, "linear") >>

\* 2.2 s up to 11: at 1.5 s the float64 interpolation is just below 7.5
ProfileOdd == << Stage(22, 11, "linear") >>
\* 3 held, then 600 ms down to 0: at 500 ms into the ramp a fused multiply-add
\* gives just below 0.5
ProfileFused == << Stage(1, 3, "step"), Stage(6, 0, "linear") >>

\* load.max_rps is a float64: the rational num/den
Rat(n, d) == [num |-> n, den |-> d]

VUConfigs ==
    { [mode |-> "vu", stages |-> ProfileRamp, maxRPS |-> Rat(0, 1), thinkTime |-> 0,
        fma |-> FALSE],
      [mode |-> "vu", stages |-> ProfileStep, maxRPS |-> Rat(1, 1), thinkTime |-> 1,
        fma |-> FALSE] }

ARConfigs ==
    { [mode |-> "arrival_rate", stages |-> ProfileStep, maxRPS |-> Rat(0, 1), thinkTime |-> 0,
        fma |-> FALSE],
      [mode |-> "arrival_rate", stages |-> ProfilePause, maxRPS |-> Rat(0, 1), thinkTime |-> 0,
        fma |-> FALSE] }

\* one virtual user, with max_rps 0 (no limiter), 0.5 or 2.5; two virtual
\* users that share a limiter of 0.5
ProfileOne == << Stage(1, 1, "step") >>
ProfileTwo == << Stage(1, 2, "step") >>

LimiterConfigs ==
    { [mode |-> "vu", stages |-> ProfileOne, maxRPS |-> r, thinkTime |-> 1,
        fma |-> FALSE] : r \in { Rat(0, 1), Rat(1, 2), Rat(5, 2) } }
      \cup { [mode |-> "vu", stages |-> ProfileTwo, maxRPS |-> Rat(1, 2), thinkTime |-> 0,
               fma |-> FALSE] }

\* the scheduler run on its own, as its tests do (no engine around it)
SchedConfigs ==
    { [mode |-> "none", stages |-> p, maxRPS |-> Rat(0, 1), thinkTime |-> 0,
        fma |-> FALSE] :
        p \in {ProfileRamp, ProfileStep, ProfilePause, ProfileHold, ProfileClimb,
                ProfileLong} }

\* the stage lists targetAt is applied to on its own: every list of one or two
\* stages within the bounds, and the two profiles above
StageSet ==
    { Stage(d, t, r) : d \in 0..MaxStageDur, t \in 0..MaxStageTarget,
                       r \in {"linear", "step"} }

StageLists ==
    { << a >> : a \in StageSet } \cup { << a, b >> : a \in StageSet, b \in StageSet }
        \cup { ProfileOdd, ProfileFused }

TargetAtConfigs ==
    { [mode |-> "none", stages |-> p, maxRPS |-> Rat(0, 1), thinkTime |-> 0,
        fma |-> f] : p \in StageLists, f \in BOOLEAN }

Max(a, b) == IF a >= b THEN a ELSE b
Min(a, b) == IF a <= b THEN a ELSE b

RECURSIVE MaxTargetOf(_)
MaxTargetOf(stgs) ==
    IF stgs = << >> THEN 0 ELSE Max(Head(stgs).target, MaxTargetOf(Tail(stgs)))

\* worker slots the VU pool can ever use (index into the workers slice, 1-based)
MaxVU == Max(MaxTargetOf(ProfileRamp), MaxTargetOf(ProfileStep))
Slots == 1..MaxVU

VARIABLES
    cfg,            \* e.cfg.Load: mode, stages, maxRPS, thinkTime; fma: the build
                    \* fuses x*y + z into one rounding
    ctxDone,        \* the ambient ctx passed to Run has been cancelled
    panicked,       \* a goroutine panicked (send on closed channel): process is gone
    \* scheduler goroutine
    spc,            \* "run" | "send" | "returned" | "done"; "called" when
                    \* targetAt is called on its own
    elapsed,        \* t.Sub(start) of the last tick delivered
    lastSent,       \* Scheduler.Run: lastSent
    pending,        \* value and done flag of the tick being sent
    targetCh,       \* buffered content of targetCh
    targetClosed,   \* close(targetCh) has run
    schedDone,      \* close(schedDone) has run
    emitted,        \* history: every value the scheduler placed on targetCh
    \* reporter goroutine
    reportDone,     \* close(reportDone) has run
    \* results channel and drain goroutine
    resultCh,       \* buffered content of resultCh
    resultClosed,   \* close(resultCh) has run
    resultCloses,   \* history: number of close(resultCh) calls
    sentLog,        \* history: ids of the Results accepted by resultCh, in order
    drainDone,      \* the drain goroutine returned (wg.Done)
    \* metrics.Collector
    colDurations,   \* endpointData.durations (one entry per Record, by request id)
    colSuccesses,   \* endpointData.successes
    colErrors,      \* endpointData.errors
    activeVUs,      \* Collector.activeVUs
    \* Engine.Run, main goroutine
    runPc,          \* "dispatch" | "waitReport" | "waitDrain" | "returned"
    finalStats,     \* << the final snapshot >>, << >> before it is taken
    retErr,         \* Run returned a non-nil error
    \* requests
    started,        \* number of Execute calls made so far (request ids 1..started)
    \* runVU
    dpc,            \* "recv" | "shrink" | "finalShrink" | "returned"
    workers,        \* len(workers)
    toRemove,       \* setWorkerCount: workers still to cancel and join
    cancelSent,     \* we.cancel() called for Head(toRemove), <-we.done pending
    lastApplied,    \* history: target of the last setWorkerCount that returned
    wpc,            \* per slot: "none" | "top" | "wait" | "exec" | "send" | "think" | "exited"
    wCancelled,     \* per slot: wCancel() has been called
    wres,           \* per slot: request in flight / Result held
    tokens,         \* len(limiter.tokens)
    fillerLive,     \* the limiter's filler goroutine is running
    deposited,      \* history: tokens the filler has placed in the bucket
    \* runArrivalRate
    apc,            \* "recv" | "join" | "finalJoin" | "returned"
    pendingRate,    \* setDispatchRate argument while joining the previous dispatcher
    dispatchers,    \* every dispatcher goroutine started: rps, pc, cancelled, sem
    dispatchCancel, \* index of the current dispatcher, 0 when nil
    tasks,          \* request goroutines: pc, gen (the sem they hold), ok
    lastRate,       \* history: argument of the last setDispatchRate that returned
    \* a metrics.Collector used on its own
    mu,             \* Collector.mu: 0 when free, else the goroutine that holds it
    endpoints,      \* Collector.endpoints: name -> endpointData
    rec,            \* per recording goroutine: pc, the Result, the endpointData read
    recDone,        \* history: bag of the Results whose Record call has returned
    snap,           \* << the Stats of the last Snapshot call >>, with the content
                    \* it was computed of and the number of Record calls that
                    \* had returned when it took the lock
    \* a worker.Executor used on its own
    exWeights,      \* Executor.endpoints: the configured weight of each endpoint
    selected,       \* << the last SelectEndpoint call >>: its draw and its index
    result,         \* << the last Execute call >>: endpoint, outcome, Result
    \* a web.State used on its own
    state,          \* the State: mu (<< >> when free, else its holder), tests,
                    \* order, activeID
    runs,           \* every TestRun made: ID, Status, cancelled (its ctx), pc
    starters        \* per goroutine calling StartTest: pc, the value returned

schedVars == << spc, elapsed, lastSent, pending, targetCh, targetClosed, schedDone, emitted >>
reportVars == << reportDone >>
resultVars == << resultCh, resultClosed, resultCloses, sentLog, drainDone >>
colVars == << colDurations, colSuccesses, colErrors, activeVUs >>
runVars == << runPc, finalStats, retErr >>
reqVars == << started >>
poolVars == << dpc, workers, toRemove, cancelSent, lastApplied >>
workerVars == << wpc, wCancelled, wres >>
limVars == << tokens, fillerLive, deposited >>
arVars == << apc, pendingRate, dispatchers, dispatchCancel, tasks, lastRate >>
metricVars == << mu, endpoints, rec, recDone, snap >>

\* the components that are also run on their own
execVars == << exWeights, selected, result >>
webVars == << state, runs, starters >>
unitVars == << metricVars, execVars, webVars >>

\* the engine and what runs under it
engineVars == << cfg, ctxDone, panicked, schedVars, reportVars, resultVars, colVars,
                 runVars, reqVars, poolVars, workerVars, limVars, arVars >>

vars == << engineVars, unitVars >>

\* ------------------------------------------------------------- scheduler
\* ---- float64 arithmetic of targetAt: float64(elapsed-stageStart) /
\* float64(stageDur), float64(prev) + float64(stage.Target-prev)*pct, math.Round.
\* A non-negative binary number is its integer part and the bits after the point.
Bin(i, f) == [int |-> i, frac |-> f]

RECURSIVE BitLen(_)
BitLen(n) == IF n = 0 THEN 0 ELSE 1 + BitLen(n \div 2)

\* number of 0 bits before the first 1 (all of them when there is no 1)
LeadingZeros(f) ==
    IF \E j \in DOMAIN f : f[j] = 1
    THEN (CHOOSE j \in DOMAIN f : f[j] = 1 /\ \A h \in 1..(j - 1) : f[h] = 0) - 1
    ELSE Len(f)

\* one unit in the last place more
Inc(x) ==
    IF \E j \in DOMAIN x.frac : x.frac[j] = 0
    THEN LET j == CHOOSE j \in DOMAIN x.frac :
                      /\ x.frac[j] = 0
                      /\ \A h \in DOMAIN x.frac : h > j => x.frac[h] = 1
         IN  Bin(x.int, [h \in DOMAIN x.frac |->
                            IF h < j THEN x.frac[h] ELSE IF h = j THEN 1 ELSE 0])
    ELSE Bin(x.int + 1, [h \in DOMAIN x.frac |-> 0])

\* the nearest float64 (MantissaBits significant bits, ties to even)
RoundSig(x) ==
    LET keep == IF x.int > 0 THEN MantissaBits - BitLen(x.int)
                ELSE LeadingZeros(x.frac) + MantissaBits
    IN  IF Len(x.frac) <= keep THEN x
        ELSE LET kept == Bin(x.int, SubSeq(x.frac, 1, keep))
                 sticky == \E j \in (keep + 2)..Len(x.frac) : x.frac[j] = 1
             IN  IF x.frac[keep + 1] = 1 /\ (sticky \/ x.frac[keep] = 1)
                 THEN Inc(kept) ELSE kept

\* 2^j mod d
RECURSIVE Pow2Mod(_, _)
Pow2Mod(j, d) ==
    IF j = 0 THEN 1 % d
    ELSE LET h == Pow2Mod(j \div 2, d)
         IN  (h * h * (IF j % 2 = 1 THEN 2 ELSE 1)) % d

\* remainder of r/d after j bits of the binary expansion, and bit j of it
Rem(r, d, j) == (r * Pow2Mod(j, d)) % d
BitOf(r, d, j) == IF 2 * Rem(r, d, j - 1) >= d THEN 1 ELSE 0

\* binary expansion of r/d (0 <= r < d): all of it when it ends, otherwise
\* MantissaBits bits from the first 1 on, one more, and a last bit that tells
\* that something is left
DivBits(r, d) ==
    IF \E j \in 0..BitLen(d) : Rem(r, d, j) = 0
    THEN LET n == CHOOSE j \in 0..BitLen(d) :
                      Rem(r, d, j) = 0 /\ \A h \in 0..(j - 1) : Rem(r, d, h) # 0
         IN  [j \in 1..n |-> BitOf(r, d, j)]
    ELSE LET first == CHOOSE j \in 1..BitLen(d) :
                          BitOf(r, d, j) = 1 /\ \A h \in 1..(j - 1) : BitOf(r, d, h) = 0
             n == first + MantissaBits
         IN  [j \in 1..(n + 1) |-> IF j <= n THEN BitOf(r, d, j) ELSE 1]

\* float64(k) / float64(d) for 0 <= k, 0 < d
Quot(k, d) == RoundSig(Bin(k \div d, DivBits(k % d, d)))

\* bit j of f, 0 past its end; the value of the eight bits f[8c+1..8c+8]
BitAt(f, j) == IF j \in DOMAIN f THEN f[j] ELSE 0
Chunk(f, c) ==
    128 * BitAt(f, 8 * c + 1) + 64 * BitAt(f, 8 * c + 2) + 32 * BitAt(f, 8 * c + 3)
      + 16 * BitAt(f, 8 * c + 4) + 8 * BitAt(f, 8 * c + 5) + 4 * BitAt(f, 8 * c + 6)
      + 2 * BitAt(f, 8 * c + 7) + BitAt(f, 8 * c + 8)

RECURSIVE Pow2(_)
Pow2(i) == IF i = 0 THEN 1 ELSE 2 * Pow2(i - 1)

\* f times m: the carry that chunk c receives from the chunks to its right
RECURSIVE CarryInto(_, _, _)
CarryInto(f, m, c) ==
    IF 8 * (c + 1) >= Len(f) THEN 0
    ELSE (Chunk(f, c + 1) * m + CarryInto(f, m, c + 1)) \div 256

\* x times the integer m >= 0, exactly
Times(x, m) ==
    Bin(x.int * m + CarryInto(x.frac, m, -1),
        [j \in DOMAIN x.frac |->
            LET c == (j - 1) \div 8
                v == (Chunk(x.frac, c) * m + CarryInto(x.frac, m, c)) % 256
            IN  (v \div Pow2(7 - ((j - 1) % 8))) % 2])

\* the integer n minus x (x <= n), exactly
Minus(n, x) ==
    IF \A j \in DOMAIN x.frac : x.frac[j] = 0
    THEN Bin(n - x.int, x.frac)
    ELSE LET j == CHOOSE j \in DOMAIN x.frac :
                      /\ x.frac[j] = 1
                      /\ \A h \in DOMAIN x.frac : h > j => x.frac[h] = 0
         IN  Bin(n - x.int - 1, [h \in DOMAIN x.frac |->
                                    IF h < j THEN 1 - x.frac[h] ELSE x.frac[h]])

\* int(math.Round(x)) for x >= 0: half away from zero
RoundHalfAway(x) ==
    x.int + (IF x.frac # << >> /\ x.frac[1] = 1 THEN 1 ELSE 0)

\* int(math.Round(float64(prev) + float64(target-prev)*pct)) with
\* pct = float64(num)/float64(stageDur); a build that fuses the multiply and
\* the add (fma) rounds the sum only
Interpolate(prev, target, num, stageDur, fma) ==
    LET pct == Quot(num, stageDur)
        exact == Times(pct, IF target >= prev THEN target - prev ELSE prev - target)
        prod == IF fma THEN exact ELSE RoundSig(exact)
    IN  RoundHalfAway(RoundSig(IF target >= prev
                               THEN Bin(prev + prod.int, prod.frac)
                               ELSE Minus(prev, prod)))

\* the loop with "elapsed < stageEnd" instead: a stage's end belongs to the
\* next stage
RECURSIVE targetAtFromStrict(_, _, _, _, _, _)
targetAtFromStrict(stgs, i, stageStart, prev, el, fma) ==
    IF i > Len(stgs) THEN [target |-> 0, done |-> TRUE]
    ELSE LET stage == stgs[i]
             stageEnd == stageStart + stage.duration
             stageDur == stage.duration
         IN  IF el < stageEnd
             THEN IF stageDur = 0 \/ stage.ramp = "step"
                  THEN [target |-> stage.target, done |-> (i = Len(stgs))]
                  ELSE [target |-> Interpolate(prev, stage.target,
                                       Min(Max(el - stageStart, 0), stageDur),
                                       stageDur, fma),
                        done |-> FALSE]
             ELSE targetAtFromStrict(stgs, i + 1, stageEnd, stage.target, el, fma)

\* Scheduler.targetAt, the loop from stage i on.
RECURSIVE targetAtFrom(_, _, _, _, _, _)
targetAtFrom(stgs, i, stageStart, prev, el, fma) ==
    IF i > Len(stgs) THEN [target |-> 0, done |-> TRUE]
    ELSE LET stage == stgs[i]
             stageEnd == stageStart + stage.duration
             stageDur == stage.duration
         IN  IF el <= stageEnd
             THEN IF stageDur = 0 \/ stage.ramp = "step"
                  THEN [target |-> stage.target, done |-> (i = Len(stgs))]
                  ELSE [target |-> Interpolate(prev, stage.target,
                                       Min(Max(el - stageStart, 0), stageDur),
                                       stageDur, fma),
                        done |-> FALSE]
             ELSE targetAtFrom(stgs, i + 1, stageEnd, stage.target, el, fma)

targetAt(stgs, el, fma) == targetAtFrom(stgs, 1, 0, 0, el, fma)

NoPending == [target |-> 0, done |-> FALSE]

\* Run with lastSent := 0 at the start: a first target of 0 counts as sent
SchedTickFromZero ==
    /\ ~panicked
    /\ spc = "run"
    /\ \E gap \in 1..MaxTickGap :
         LET r == targetAt(cfg.stages, elapsed + gap, cfg.fma)
         IN  /\ elapsed' = elapsed + gap
             /\ IF r.target = Max(lastSent, 0)
                THEN /\ spc' = (IF r.done THEN "returned" ELSE "run")
                     /\ pending' = NoPending
                ELSE /\ spc' = "send"
                     /\ pending' = r
    /\ UNCHANGED << lastSent, targetCh, targetClosed, schedDone, emitted >>
    /\ UNCHANGED << cfg, unitVars, ctxDone, panicked, reportVars, resultVars, colVars,
                    runVars, reqVars, poolVars, workerVars, limVars, arVars >>

\* Scheduler.Run, case t := <-ticker.C: compute the target; sendIfChanged
\* returns true at once when the value is the one last sent.
SchedTick ==
    /\ ~panicked
    /\ spc = "run"
    /\ \E gap \in 1..MaxTickGap :
         LET r == targetAt(cfg.stages, elapsed + gap, cfg.fma)
         IN  /\ elapsed' = elapsed + gap
             /\ IF r.target = lastSent
                THEN /\ spc' = (IF r.done THEN "returned" ELSE "run")
                     /\ pending' = NoPending
                ELSE /\ spc' = "send"
                     /\ pending' = r
    /\ UNCHANGED << lastSent, targetCh, targetClosed, schedDone, emitted >>
    /\ UNCHANGED << cfg, unitVars, ctxDone, panicked, reportVars, resultVars, colVars,
                    runVars, reqVars, poolVars, workerVars, limVars, arVars >>

\* sendIfChanged, case targetCh <- v
SchedSend ==
    /\ ~panicked
    /\ spc = "send"
    /\ Len(targetCh) < TargetChCap
    /\ targetCh' = Append(targetCh, pending.target)
    /\ emitted' = Append(emitted, pending.target)
    /\ lastSent' = pending.target
    /\ spc' = (IF pending.done THEN "returned" ELSE "run")
    /\ pending' = NoPending
    /\ UNCHANGED << elapsed, targetClosed, schedDone >>
    /\ UNCHANGED << cfg, unitVars, ctxDone, panicked, reportVars, resultVars, colVars,
                    runVars, reqVars, poolVars, workerVars, limVars, arVars >>

\* sendIfChanged as a plain blocking send: there is no <-ctx.Done() case to
\* leave by while the channel is full
SchedSendNoCancel ==
    /\ ~panicked
    /\ spc = "send"
    /\ ctxDone
    /\ Len(targetCh) < TargetChCap
    /\ spc' = "returned"
    /\ pending' = NoPending
    /\ UNCHANGED << elapsed, lastSent, targetCh, targetClosed, schedDone, emitted >>
    /\ UNCHANGED << cfg, unitVars, ctxDone, panicked, reportVars, resultVars, colVars,
                    runVars, reqVars, poolVars, workerVars, limVars, arVars >>

\* sendIfChanged, case <-ctx.Done(): returns false, Run returns without sendFinal
SchedSendCancelled ==
    /\ ~panicked
    /\ spc = "send"
    /\ ctxDone
    /\ spc' = "returned"
    /\ pending' = NoPending
    /\ UNCHANGED << elapsed, lastSent, targetCh, targetClosed, schedDone, emitted >>
    /\ UNCHANGED << cfg, unitVars, ctxDone, panicked, reportVars, resultVars, colVars,
                    runVars, reqVars, poolVars, workerVars, limVars, arVars >>

\* sendFinal without the lastSent == 0 test: the 0 is sent whenever there is room
SchedCtxDoneAlways ==
    /\ ~panicked
    /\ spc = "run"
    /\ ctxDone
    /\ IF Len(targetCh) < TargetChCap
       THEN /\ targetCh' = Append(targetCh, 0)
            /\ emitted' = Append(emitted, 0)
       ELSE UNCHANGED << targetCh, emitted >>
    /\ spc' = "returned"
    /\ UNCHANGED << elapsed, lastSent, pending, targetClosed, schedDone >>
    /\ UNCHANGED << cfg, unitVars, ctxDone, panicked, reportVars, resultVars, colVars,
                    runVars, reqVars, poolVars, workerVars, limVars, arVars >>

\* Scheduler.Run, case <-ctx.Done(): sendFinal (non-blocking send of 0), return
SchedCtxDone ==
    /\ ~panicked
    /\ spc = "run"
    /\ ctxDone
    /\ IF lastSent # 0 /\ Len(targetCh) < TargetChCap
       THEN /\ targetCh' = Append(targetCh, 0)
            /\ emitted' = Append(emitted, 0)
       ELSE UNCHANGED << targetCh, emitted >>
    /\ spc' = "returned"
    /\ UNCHANGED << elapsed, lastSent, pending, targetClosed, schedDone >>
    /\ UNCHANGED << cfg, unitVars, ctxDone, panicked, reportVars, resultVars, colVars,
                    runVars, reqVars, poolVars, workerVars, limVars, arVars >>

\* Engine.Run, scheduler goroutine: sched.Run returned; close(targetCh);
\* defer close(schedDone)
SchedClose ==
    /\ ~panicked
    /\ spc = "returned"
    /\ targetClosed' = TRUE
    /\ schedDone' = TRUE
    /\ spc' = "done"
    /\ UNCHANGED << elapsed, lastSent, pending, targetCh, emitted >>
    /\ UNCHANGED << cfg, unitVars, ctxDone, panicked, reportVars, resultVars, colVars,
                    runVars, reqVars, poolVars, workerVars, limVars, arVars >>

\* sum of the stage durations
RECURSIVE TotalDuration(_)
TotalDuration(stgs) ==
    IF stgs = << >> THEN 0 ELSE Head(stgs).duration + TotalDuration(Tail(stgs))

\* targetAt called directly, as the unit tests do, at elapsed = 0, 1, 2, ...
\* up to one tick past the last stage; the result is kept in pending
TargetAtCall ==
    /\ ~panicked
    /\ cfg.mode = "none"
    /\ spc \in {"run", "called"}
    /\ LET el == IF spc = "run" THEN 0 ELSE elapsed + 1
       IN  /\ el <= TotalDuration(cfg.stages) + 1
           /\ elapsed' = el
           /\ pending' = targetAt(cfg.stages, el, cfg.fma)
    /\ spc' = "called"
    /\ UNCHANGED << lastSent, targetCh, targetClosed, schedDone, emitted >>
    /\ UNCHANGED << cfg, unitVars, ctxDone, panicked, reportVars, resultVars, colVars,
                    runVars, reqVars, poolVars, workerVars, limVars, arVars >>

\* the reader of a scheduler run on its own: v := <-ch
OutRecv ==
    /\ ~panicked
    /\ cfg.mode = "none"
    /\ targetCh # << >>
    /\ targetCh' = Tail(targetCh)
    /\ UNCHANGED << spc, elapsed, lastSent, pending, targetClosed, schedDone, emitted >>
    /\ UNCHANGED << cfg, unitVars, ctxDone, panicked, reportVars, resultVars, colVars,
                    runVars, reqVars, poolVars, workerVars, limVars, arVars >>

\* ------------------------------------------------------------- collector
\* Collector.Snapshot: the counters of the Stats value
Snapshot ==
    [TotalRequests |-> colSuccesses + colErrors,
     SuccessCount  |-> colSuccesses,
     ErrorCount    |-> colErrors,
     ActiveVUs     |-> activeVUs]

\* Record with the else dropped: a failed Result is counted under both counters
RecordBoth(r) ==
    /\ colDurations' = Append(colDurations, r.id)
    /\ colErrors' = colErrors + 1
    /\ colSuccesses' = colSuccesses + 1
    /\ UNCHANGED activeVUs

\* Collector.Record(r)
Record(r) ==
    /\ colDurations' = Append(colDurations, r.id)
    /\ IF r.ok
       THEN colSuccesses' = colSuccesses + 1 /\ UNCHANGED colErrors
       ELSE colErrors' = colErrors + 1 /\ UNCHANGED colSuccesses
    /\ UNCHANGED activeVUs

\* Collector.SetActiveVUs(n)
SetActiveVUs(n) ==
    /\ activeVUs' = n
    /\ UNCHANGED << colDurations, colSuccesses, colErrors >>

\* -------------------------------------------------------------- reporter
\* reporter goroutine, case <-ticker.C: snap := collector.Snapshot(); Print.
\* The snapshot is a value computed from the collector (Snapshot); printing it
\* changes no state of the engine.
ReporterTick ==
    /\ ~panicked
    /\ ~reportDone
    /\ UNCHANGED reportDone
    /\ UNCHANGED << cfg, unitVars, ctxDone, panicked, schedVars, resultVars, colVars,
                    runVars, reqVars, poolVars, workerVars, limVars, arVars >>

\* reporter goroutine, case <-ctx.Done() / case <-schedDone: return
ReporterExit ==
    /\ ~panicked
    /\ ~reportDone
    /\ ctxDone \/ schedDone
    /\ reportDone' = TRUE
    /\ UNCHANGED << cfg, unitVars, ctxDone, panicked, schedVars, resultVars, colVars,
                    runVars, reqVars, poolVars, workerVars, limVars, arVars >>

\* ----------------------------------------------------------------- drain
\* drain goroutine: for r := range resultCh { collector.Record(r) }
DrainRecord ==
    /\ ~panicked
    /\ ~drainDone
    /\ resultCh # << >>
    /\ Record(Head(resultCh))
    /\ resultCh' = Tail(resultCh)
    /\ UNCHANGED << resultClosed, resultCloses, sentLog, drainDone >>
    /\ UNCHANGED << cfg, unitVars, ctxDone, panicked, schedVars, reportVars,
                    runVars, reqVars, poolVars, workerVars, limVars, arVars >>

\* the range loop left as soon as the channel is closed, buffered or not
DrainExitOnClose ==
    /\ ~panicked
    /\ ~drainDone
    /\ resultClosed
    /\ drainDone' = TRUE
    /\ UNCHANGED << resultCh, resultClosed, resultCloses, sentLog >>
    /\ UNCHANGED << cfg, unitVars, ctxDone, panicked, schedVars, reportVars, colVars,
                    runVars, reqVars, poolVars, workerVars, limVars, arVars >>

\* drain goroutine: the range loop ends on a closed, empty channel; wg.Done
DrainExit ==
    /\ ~panicked
    /\ ~drainDone
    /\ resultClosed
    /\ resultCh = << >>
    /\ drainDone' = TRUE
    /\ UNCHANGED << resultCh, resultClosed, resultCloses, sentLog >>
    /\ UNCHANGED << cfg, unitVars, ctxDone, panicked, schedVars, reportVars, colVars,
                    runVars, reqVars, poolVars, workerVars, limVars, arVars >>

\* ------------------------------------------------------ Engine.Run, main
\* <-reportDone; close(resultCh)
RunCloseResults ==
    /\ ~panicked
    /\ runPc = "waitReport"
    /\ reportDone
    /\ resultClosed' = TRUE
    /\ resultCloses' = resultCloses + 1
    /\ runPc' = "waitDrain"
    /\ UNCHANGED << resultCh, sentLog, drainDone, finalStats, retErr >>
    /\ UNCHANGED << cfg, unitVars, ctxDone, panicked, schedVars, reportVars, colVars,
                    reqVars, poolVars, workerVars, limVars, arVars >>

\* the error decided on "some request did not succeed" taken from the request
\* counter instead of the snapshot's ErrorCount
RunFinishByStarted ==
    /\ ~panicked
    /\ runPc = "waitDrain"
    /\ drainDone
    /\ finalStats' = << Snapshot >>
    /\ retErr' = (started > Snapshot.SuccessCount)
    /\ runPc' = "returned"
    /\ UNCHANGED << cfg, unitVars, ctxDone, panicked, schedVars, reportVars, resultVars,
                    colVars, reqVars, poolVars, workerVars, limVars, arVars >>

\* wg.Wait(); finalStats := collector.Snapshot(); return error iff ErrorCount > 0
RunFinish ==
    /\ ~panicked
    /\ runPc = "waitDrain"
    /\ drainDone
    /\ finalStats' = << Snapshot >>
    /\ retErr' = (Snapshot.ErrorCount > 0)
    /\ runPc' = "returned"
    /\ UNCHANGED << cfg, unitVars, ctxDone, panicked, schedVars, reportVars, resultVars,
                    colVars, reqVars, poolVars, workerVars, limVars, arVars >>

\* the caller cancels the ambient context (signal, timeout)
CancelCtx ==
    /\ ~panicked
    /\ ~ctxDone
    /\ runPc # "returned"
    /\ ctxDone' = TRUE
    /\ UNCHANGED << cfg, unitVars, panicked, schedVars, reportVars, resultVars, colVars,
                    runVars, reqVars, poolVars, workerVars, limVars, arVars >>

\* ------------------------------------------------------------ rate limiter
\* int(rps) for rps >= 0: truncation
Floor(q) == q.num \div q.den

\* NewLimiter: burst := int(rps); if burst < 1 { burst = 1 }
burst == Max(1, Floor(cfg.maxRPS))

\* NewLimiter returns nil when rps <= 0
LimiterNil == cfg.maxRPS.num <= 0

\* the filler with a plain send: every tick adds a token
LimiterFillNoCap ==
    /\ ~panicked
    /\ fillerLive
    /\ tokens' = tokens + 1
    /\ deposited' = deposited + 1
    /\ UNCHANGED fillerLive
    /\ UNCHANGED << cfg, unitVars, ctxDone, panicked, schedVars, reportVars, resultVars, colVars,
                    runVars, reqVars, poolVars, workerVars, arVars >>

\* filler goroutine, case <-ticker.C: deposit a token, drop it when the bucket is full
LimiterFill ==
    /\ ~panicked
    /\ fillerLive
    /\ tokens' = (IF tokens < burst THEN tokens + 1 ELSE tokens)
    /\ deposited' = (IF tokens < burst THEN deposited + 1 ELSE deposited)
    /\ UNCHANGED fillerLive
    /\ UNCHANGED << cfg, unitVars, ctxDone, panicked, schedVars, reportVars, resultVars, colVars,
                    runVars, reqVars, poolVars, workerVars, arVars >>

\* filler goroutine, case <-ctx.Done(): return
LimiterExit ==
    /\ ~panicked
    /\ fillerLive
    /\ ctxDone
    /\ fillerLive' = FALSE
    /\ UNCHANGED << tokens, deposited >>
    /\ UNCHANGED << cfg, unitVars, ctxDone, panicked, schedVars, reportVars, resultVars, colVars,
                    runVars, reqVars, poolVars, workerVars, arVars >>

\* ------------------------------------------------------------- worker.Run
NoReq == [id |-> 0, ok |-> TRUE]

\* ctx.Done() of worker i's context: wCtx is derived from the ambient ctx
WorkerCtxDone(i) == wCancelled[i] \/ ctxDone

\* a worker goroutine exists and has not returned
Running(i) == wpc[i] \notin {"none", "exited"}

\* w.exec.SelectEndpoint(); w.exec.Execute(ctx, ep) is entered: request started + 1
StartExecute(i) ==
    /\ started < MaxRequests
    /\ started' = started + 1
    /\ wres' = [wres EXCEPT ![i] = [id |-> started + 1, ok |-> TRUE]]
    /\ wpc' = [wpc EXCEPT ![i] = "exec"]

\* the loop without the Wait: the request is started at once
WorkerTopNoWait(i) ==
    /\ ~panicked
    /\ wpc[i] = "top"
    /\ IF WorkerCtxDone(i)
       THEN /\ wpc' = [wpc EXCEPT ![i] = "exited"]
            /\ UNCHANGED << wres, started >>
       ELSE StartExecute(i)
    /\ UNCHANGED wCancelled
    /\ UNCHANGED << cfg, unitVars, ctxDone, panicked, schedVars, reportVars, resultVars, colVars,
                    runVars, poolVars, limVars, arVars >>

\* the loop without its select on ctx.Done(): straight to limiter.Wait
WorkerTopNoCheck(i) ==
    /\ ~panicked
    /\ wpc[i] = "top"
    /\ IF LimiterNil
       THEN StartExecute(i)
       ELSE /\ wpc' = [wpc EXCEPT ![i] = "wait"]
            /\ UNCHANGED << wres, started >>
    /\ UNCHANGED wCancelled
    /\ UNCHANGED << cfg, unitVars, ctxDone, panicked, schedVars, reportVars, resultVars, colVars,
                    runVars, poolVars, limVars, arVars >>

\* top of the loop: select { case <-ctx.Done(): return; default: }, then
\* limiter.Wait, which returns true at once on a nil limiter
WorkerTop(i) ==
    /\ ~panicked
    /\ wpc[i] = "top"
    /\ IF WorkerCtxDone(i)
       THEN /\ wpc' = [wpc EXCEPT ![i] = "exited"]
            /\ UNCHANGED << wres, started >>
       ELSE IF LimiterNil
            THEN StartExecute(i)
            ELSE /\ wpc' = [wpc EXCEPT ![i] = "wait"]
                 /\ UNCHANGED << wres, started >>
    /\ UNCHANGED wCancelled
    /\ UNCHANGED << cfg, unitVars, ctxDone, panicked, schedVars, reportVars, resultVars, colVars,
                    runVars, poolVars, limVars, arVars >>

\* a Wait that returns true without a token
WorkerWaitNoToken(i) ==
    /\ ~panicked
    /\ wpc[i] = "wait"
    /\ StartExecute(i)
    /\ UNCHANGED << wCancelled, tokens, fillerLive, deposited >>
    /\ UNCHANGED << cfg, unitVars, ctxDone, panicked, schedVars, reportVars, resultVars, colVars,
                    runVars, poolVars, arVars >>

\* Limiter.Wait, case <-l.tokens: return true
WorkerWaitToken(i) ==
    /\ ~panicked
    /\ wpc[i] = "wait"
    /\ tokens > 0
    /\ tokens' = tokens - 1
    /\ StartExecute(i)
    /\ UNCHANGED << wCancelled, fillerLive, deposited >>
    /\ UNCHANGED << cfg, unitVars, ctxDone, panicked, schedVars, reportVars, resultVars, colVars,
                    runVars, poolVars, arVars >>

\* Limiter.Wait, case <-ctx.Done(): return false; the worker returns
WorkerWaitCancelled(i) ==
    /\ ~panicked
    /\ wpc[i] = "wait"
    /\ WorkerCtxDone(i)
    /\ wpc' = [wpc EXCEPT ![i] = "exited"]
    /\ UNCHANGED << wCancelled, wres >>
    /\ UNCHANGED << cfg, unitVars, ctxDone, panicked, schedVars, reportVars, resultVars, colVars,
                    runVars, reqVars, poolVars, limVars, arVars >>

\* every Result with an error is discarded, whatever the context
WorkerExecReturnDropsErrors(i, ok) ==
    /\ ~panicked
    /\ wpc[i] = "exec"
    /\ IF ~ok
       THEN /\ wpc' = [wpc EXCEPT ![i] = "exited"]
            /\ wres' = [wres EXCEPT ![i] = NoReq]
       ELSE /\ wpc' = [wpc EXCEPT ![i] = "send"]
            /\ wres' = [wres EXCEPT ![i].ok = ok]
    /\ UNCHANGED << wCancelled, started >>
    /\ UNCHANGED << cfg, unitVars, ctxDone, panicked, schedVars, reportVars, resultVars, colVars,
                    runVars, poolVars, limVars, arVars >>

\* Execute returns (ok: result.Error == nil), then
\* if result.Error != nil && ctx.Err() != nil { return }
WorkerExecReturn(i, ok) ==
    /\ ~panicked
    /\ wpc[i] = "exec"
    /\ IF ~ok /\ WorkerCtxDone(i)
       THEN /\ wpc' = [wpc EXCEPT ![i] = "exited"]
            /\ wres' = [wres EXCEPT ![i] = NoReq]
       ELSE /\ wpc' = [wpc EXCEPT ![i] = "send"]
            /\ wres' = [wres EXCEPT ![i].ok = ok]
    /\ UNCHANGED << wCancelled, started >>
    /\ UNCHANGED << cfg, unitVars, ctxDone, panicked, schedVars, reportVars, resultVars, colVars,
                    runVars, poolVars, limVars, arVars >>

\* select, case w.resultCh <- result (a send on a closed channel panics)
WorkerSend(i) ==
    /\ ~panicked
    /\ wpc[i] = "send"
    /\ IF resultClosed
       THEN /\ panicked' = TRUE
            /\ UNCHANGED << resultCh, sentLog, wpc, wres >>
       ELSE /\ Len(resultCh) < ResultChCap
            /\ resultCh' = Append(resultCh, wres[i])
            /\ sentLog' = Append(sentLog, wres[i].id)
            /\ wpc' = [wpc EXCEPT ![i] = IF cfg.thinkTime > 0 THEN "think" ELSE "top"]
            /\ wres' = [wres EXCEPT ![i] = NoReq]
            /\ UNCHANGED panicked
    /\ UNCHANGED << wCancelled, resultClosed, resultCloses, drainDone >>
    /\ UNCHANGED << cfg, unitVars, ctxDone, schedVars, reportVars, colVars,
                    runVars, reqVars, poolVars, limVars, arVars >>

\* select, case <-ctx.Done(): return (the Result is not sent)
WorkerSendCancelled(i) ==
    /\ ~panicked
    /\ wpc[i] = "send"
    /\ WorkerCtxDone(i)
    /\ wpc' = [wpc EXCEPT ![i] = "exited"]
    /\ wres' = [wres EXCEPT ![i] = NoReq]
    /\ UNCHANGED wCancelled
    /\ UNCHANGED << cfg, unitVars, ctxDone, panicked, schedVars, reportVars, resultVars, colVars,
                    runVars, reqVars, poolVars, limVars, arVars >>

\* think time, case <-time.After(w.thinkTime)
WorkerThinkDone(i) ==
    /\ ~panicked
    /\ wpc[i] = "think"
    /\ wpc' = [wpc EXCEPT ![i] = "top"]
    /\ UNCHANGED << wCancelled, wres >>
    /\ UNCHANGED << cfg, unitVars, ctxDone, panicked, schedVars, reportVars, resultVars, colVars,
                    runVars, reqVars, poolVars, limVars, arVars >>

\* think time, case <-ctx.Done(): return
WorkerThinkCancelled(i) ==
    /\ ~panicked
    /\ wpc[i] = "think"
    /\ WorkerCtxDone(i)
    /\ wpc' = [wpc EXCEPT ![i] = "exited"]
    /\ UNCHANGED << wCancelled, wres >>
    /\ UNCHANGED << cfg, unitVars, ctxDone, panicked, schedVars, reportVars, resultVars, colVars,
                    runVars, reqVars, poolVars, limVars, arVars >>

\* ----------------------------------------------------------------- runVU
\* workers[:current-target] instead: the first workers are removed
SlotsFromStart(lo, hi) == [k \in 1..(hi - lo + 1) |-> k]

\* workers[target:], as slot numbers (slot k holds workers[k-1])
SlotsFrom(lo, hi) == [k \in 1..(hi - lo + 1) |-> lo + k - 1]

\* setWorkerCount returning without collector.SetActiveVUs(len(workers))
PublishedNot(n, final) ==
    /\ UNCHANGED colVars
    /\ lastApplied' = n
    /\ dpc' = (IF final THEN "returned" ELSE "recv")
    /\ runPc' = (IF final THEN "waitReport" ELSE runPc)

\* setWorkerCount returns: collector.SetActiveVUs(len(workers)); the caller
\* goes back to the range loop, or runVU returns after the final resize
Published(n, final) ==
    /\ SetActiveVUs(n)
    /\ lastApplied' = n
    /\ dpc' = (IF final THEN "returned" ELSE "recv")
    /\ runPc' = (IF final THEN "waitReport" ELSE runPc)

\* setWorkerCount(target) up to its first blocking point
setWorkerCount(target, final) ==
    LET current == workers
    IN  IF target > current
        THEN /\ wpc' = [i \in Slots |->
                          IF i > current /\ i <= target THEN "top" ELSE wpc[i]]
             /\ wCancelled' = [i \in Slots |->
                          IF i > current /\ i <= target THEN FALSE ELSE wCancelled[i]]
             /\ workers' = target
             /\ Published(target, final)
             /\ UNCHANGED << toRemove, cancelSent, wres >>
        ELSE IF target < current
        THEN /\ toRemove' = SlotsFrom(target + 1, current)
             /\ workers' = target
             /\ dpc' = (IF final THEN "finalShrink" ELSE "shrink")
             /\ UNCHANGED << cancelSent, lastApplied, colVars, runPc, workerVars >>
        ELSE /\ Published(current, final)
             /\ UNCHANGED << workers, toRemove, cancelSent, workerVars >>

\* a loop that applies only the newest buffered target and discards the rest
VURecvLatest ==
    /\ ~panicked
    /\ cfg.mode = "vu"
    /\ dpc = "recv"
    /\ targetCh # << >>
    /\ targetCh' = << >>
    /\ setWorkerCount(targetCh[Len(targetCh)], FALSE)
    /\ UNCHANGED << spc, elapsed, lastSent, pending, targetClosed, schedDone, emitted >>
    /\ UNCHANGED << cfg, unitVars, ctxDone, panicked, reportVars, resultVars,
                    finalStats, retErr, reqVars, limVars, arVars >>

\* for target := range targetCh { setWorkerCount(target) }
VURecv ==
    /\ ~panicked
    /\ cfg.mode = "vu"
    /\ dpc = "recv"
    /\ targetCh # << >>
    /\ targetCh' = Tail(targetCh)
    /\ setWorkerCount(Head(targetCh), FALSE)
    /\ UNCHANGED << spc, elapsed, lastSent, pending, targetClosed, schedDone, emitted >>
    /\ UNCHANGED << cfg, unitVars, ctxDone, panicked, reportVars, resultVars,
                    finalStats, retErr, reqVars, limVars, arVars >>

\* the range loop ends and runVU returns without the final setWorkerCount(0)
VUClosedNoResize ==
    /\ ~panicked
    /\ cfg.mode = "vu"
    /\ dpc = "recv"
    /\ targetCh = << >>
    /\ targetClosed
    /\ dpc' = "returned"
    /\ runPc' = "waitReport"
    /\ UNCHANGED << workers, toRemove, cancelSent, lastApplied, colVars, workerVars >>
    /\ UNCHANGED << cfg, unitVars, ctxDone, panicked, schedVars, reportVars, resultVars,
                    finalStats, retErr, reqVars, limVars, arVars >>

\* the range loop ends on the closed, empty channel: setWorkerCount(0)
VUClosed ==
    /\ ~panicked
    /\ cfg.mode = "vu"
    /\ dpc = "recv"
    /\ targetCh = << >>
    /\ targetClosed
    /\ setWorkerCount(0, TRUE)
    /\ UNCHANGED << cfg, unitVars, ctxDone, panicked, schedVars, reportVars, resultVars,
                    finalStats, retErr, reqVars, limVars, arVars >>

\* setWorkerCount, shrink loop: we.cancel()
VUCancel ==
    /\ ~panicked
    /\ dpc \in {"shrink", "finalShrink"}
    /\ toRemove # << >>
    /\ ~cancelSent
    /\ wCancelled' = [wCancelled EXCEPT ![Head(toRemove)] = TRUE]
    /\ cancelSent' = TRUE
    /\ UNCHANGED << dpc, workers, toRemove, lastApplied, wpc, wres >>
    /\ UNCHANGED << cfg, unitVars, ctxDone, panicked, schedVars, reportVars, resultVars, colVars,
                    runVars, reqVars, limVars, arVars >>

\* the shrink loop without <-we.done: the worker is cancelled, not joined
VUJoinNoWait ==
    /\ ~panicked
    /\ dpc \in {"shrink", "finalShrink"}
    /\ toRemove # << >>
    /\ cancelSent
    /\ toRemove' = Tail(toRemove)
    /\ cancelSent' = FALSE
    /\ IF Tail(toRemove) = << >>
       THEN Published(workers, dpc = "finalShrink")
       ELSE UNCHANGED << dpc, lastApplied, colVars, runPc >>
    /\ UNCHANGED << workers, workerVars >>
    /\ UNCHANGED << cfg, unitVars, ctxDone, panicked, schedVars, reportVars, resultVars,
                    finalStats, retErr, reqVars, limVars, arVars >>

\* setWorkerCount, shrink loop: <-we.done; after the last one the function returns
VUJoin ==
    /\ ~panicked
    /\ dpc \in {"shrink", "finalShrink"}
    /\ toRemove # << >>
    /\ cancelSent
    /\ wpc[Head(toRemove)] = "exited"
    /\ toRemove' = Tail(toRemove)
    /\ cancelSent' = FALSE
    /\ IF Tail(toRemove) = << >>
       THEN Published(workers, dpc = "finalShrink")
       ELSE UNCHANGED << dpc, lastApplied, colVars, runPc >>
    /\ UNCHANGED << workers, workerVars >>
    /\ UNCHANGED << cfg, unitVars, ctxDone, panicked, schedVars, reportVars, resultVars,
                    finalStats, retErr, reqVars, limVars, arVars >>

\* -------------------------------------------------------- runArrivalRate
\* dCtx.Done() of dispatcher g: dCtx is derived from the ambient ctx
DispatchCtxDone(g) == dispatchers[g].cancelled \/ ctxDone

\* sem := make(chan struct{}, rps*2)
SemCap(g) == dispatchers[g].rps * 2

\* setDispatchRate that returns on a rate of 0 without SetActiveVUs(0)
StartRateKeepsLevel(rps) ==
    /\ IF rps = 0
       THEN /\ dispatchCancel' = 0
            /\ UNCHANGED colVars
            /\ UNCHANGED dispatchers
       ELSE /\ dispatchers' = Append(dispatchers,
                 [rps |-> rps, pc |-> "loop", cancelled |-> FALSE, sem |-> 0])
            /\ dispatchCancel' = Len(dispatchers) + 1
            /\ UNCHANGED colVars
    /\ lastRate' = rps
    /\ pendingRate' = 0
    /\ apc' = "recv"

\* setDispatchRate(rps) after the previous dispatcher (if any) has been joined
StartRate(rps) ==
    /\ IF rps = 0
       THEN /\ dispatchCancel' = 0
            /\ SetActiveVUs(0)
            /\ UNCHANGED dispatchers
       ELSE /\ dispatchers' = Append(dispatchers,
                 [rps |-> rps, pc |-> "loop", cancelled |-> FALSE, sem |-> 0])
            /\ dispatchCancel' = Len(dispatchers) + 1
            /\ UNCHANGED colVars
    /\ lastRate' = rps
    /\ pendingRate' = 0
    /\ apc' = "recv"

\* for target := range targetCh { setDispatchRate(target) }: the previous
\* dispatcher is cancelled first (dispatchCancel()), then joined
ARRecv ==
    /\ ~panicked
    /\ cfg.mode = "arrival_rate"
    /\ apc = "recv"
    /\ targetCh # << >>
    /\ targetCh' = Tail(targetCh)
    /\ IF dispatchCancel # 0
       THEN /\ dispatchers' = [dispatchers EXCEPT ![dispatchCancel].cancelled = TRUE]
            /\ pendingRate' = Head(targetCh)
            /\ apc' = "join"
            /\ UNCHANGED << dispatchCancel, lastRate, colVars >>
       ELSE StartRate(Head(targetCh))
    /\ UNCHANGED tasks
    /\ UNCHANGED << spc, elapsed, lastSent, pending, targetClosed, schedDone, emitted >>
    /\ UNCHANGED << cfg, unitVars, ctxDone, panicked, reportVars, resultVars,
                    runVars, reqVars, poolVars, workerVars, limVars >>

\* setDispatchRate without <-dispatchDone: the old dispatcher is not joined
ARJoinNoWait ==
    /\ ~panicked
    /\ apc = "join"
    /\ StartRate(pendingRate)
    /\ UNCHANGED tasks
    /\ UNCHANGED << cfg, unitVars, ctxDone, panicked, schedVars, reportVars, resultVars,
                    runVars, reqVars, poolVars, workerVars, limVars >>

\* setDispatchRate: <-dispatchDone, then the rest of the function
ARJoin ==
    /\ ~panicked
    /\ apc = "join"
    /\ dispatchers[dispatchCancel].pc = "exited"
    /\ StartRate(pendingRate)
    /\ UNCHANGED tasks
    /\ UNCHANGED << cfg, unitVars, ctxDone, panicked, schedVars, reportVars, resultVars,
                    runVars, reqVars, poolVars, workerVars, limVars >>

\* the range loop ends: if dispatchCancel != nil { dispatchCancel(); ... }
ARClosed ==
    /\ ~panicked
    /\ cfg.mode = "arrival_rate"
    /\ apc = "recv"
    /\ targetCh = << >>
    /\ targetClosed
    /\ IF dispatchCancel # 0
       THEN /\ dispatchers' = [dispatchers EXCEPT ![dispatchCancel].cancelled = TRUE]
            /\ apc' = "finalJoin"
            /\ UNCHANGED runPc
       ELSE /\ apc' = "returned"
            /\ runPc' = "waitReport"
            /\ UNCHANGED dispatchers
    /\ UNCHANGED << pendingRate, dispatchCancel, tasks, lastRate >>
    /\ UNCHANGED << cfg, unitVars, ctxDone, panicked, schedVars, reportVars, resultVars, colVars,
                    finalStats, retErr, reqVars, poolVars, workerVars, limVars >>

\* ... <-dispatchDone }: runArrivalRate returns
ARFinalJoin ==
    /\ ~panicked
    /\ apc = "finalJoin"
    /\ dispatchers[dispatchCancel].pc = "exited"
    /\ apc' = "returned"
    /\ runPc' = "waitReport"
    /\ UNCHANGED << pendingRate, dispatchers, dispatchCancel, tasks, lastRate >>
    /\ UNCHANGED << cfg, unitVars, ctxDone, panicked, schedVars, reportVars, resultVars, colVars,
                    finalStats, retErr, reqVars, poolVars, workerVars, limVars >>

\* dispatcher goroutine, case <-dCtx.Done(): return (close(dispatchDone))
DispExit(g) ==
    /\ ~panicked
    /\ dispatchers[g].pc = "loop"
    /\ DispatchCtxDone(g)
    /\ dispatchers' = [dispatchers EXCEPT ![g].pc = "exited"]
    /\ UNCHANGED << apc, pendingRate, dispatchCancel, tasks, lastRate >>
    /\ UNCHANGED << cfg, unitVars, ctxDone, panicked, schedVars, reportVars, resultVars, colVars,
                    runVars, reqVars, poolVars, workerVars, limVars >>

\* dispatcher goroutine, case <-ticker.C, inner select case sem <- struct{}{}
DispAcquire(g) ==
    /\ ~panicked
    /\ dispatchers[g].pc = "loop"
    /\ started < MaxRequests
    /\ dispatchers[g].sem < SemCap(g)
    /\ dispatchers' = [dispatchers EXCEPT ![g].sem = @ + 1, ![g].pc = "acquired"]
    /\ UNCHANGED << apc, pendingRate, dispatchCancel, tasks, lastRate >>
    /\ UNCHANGED << cfg, unitVars, ctxDone, panicked, schedVars, reportVars, resultVars, colVars,
                    runVars, reqVars, poolVars, workerVars, limVars >>

\* a blocking sem <- struct{}{} instead of the select with default: on a full
\* semaphore the dispatcher waits for a slot
DispDropBlocks(g) ==
    /\ ~panicked
    /\ dispatchers[g].pc = "loop"
    /\ dispatchers[g].sem >= SemCap(g)
    /\ dispatchers' = [dispatchers EXCEPT ![g].pc = "blocked"]
    /\ UNCHANGED << apc, pendingRate, dispatchCancel, tasks, lastRate >>
    /\ UNCHANGED << cfg, unitVars, ctxDone, panicked, schedVars, reportVars, resultVars, colVars,
                    runVars, reqVars, poolVars, workerVars, limVars >>

\* dispatcher goroutine, case <-ticker.C, inner select default: the semaphore
\* is full and the tick is dropped
DispDrop(g) ==
    /\ ~panicked
    /\ dispatchers[g].pc = "loop"
    /\ dispatchers[g].sem >= SemCap(g)
    /\ dispatchers' = [dispatchers EXCEPT ![g].pc = "dropped"]
    /\ UNCHANGED << apc, pendingRate, dispatchCancel, tasks, lastRate >>
    /\ UNCHANGED << cfg, unitVars, ctxDone, panicked, schedVars, reportVars, resultVars, colVars,
                    runVars, reqVars, poolVars, workerVars, limVars >>

\* dispatcher goroutine: after the default branch the for loop selects again
DispLoop(g) ==
    /\ ~panicked
    /\ dispatchers[g].pc = "dropped"
    /\ dispatchers' = [dispatchers EXCEPT ![g].pc = "loop"]
    /\ UNCHANGED << apc, pendingRate, dispatchCancel, tasks, lastRate >>
    /\ UNCHANGED << cfg, unitVars, ctxDone, panicked, schedVars, reportVars, resultVars, colVars,
                    runVars, reqVars, poolVars, workerVars, limVars >>

\* collector.SetActiveVUs(len(sem)); go func() { ... }()
DispSpawn(g) ==
    /\ ~panicked
    /\ dispatchers[g].pc = "acquired"
    /\ SetActiveVUs(dispatchers[g].sem)
    /\ started' = started + 1
    /\ tasks' = Append(tasks, [pc |-> "exec", gen |-> g, ok |-> TRUE])
    /\ dispatchers' = [dispatchers EXCEPT ![g].pc = "loop"]
    /\ UNCHANGED << apc, pendingRate, dispatchCancel, lastRate >>
    /\ UNCHANGED << cfg, unitVars, ctxDone, panicked, schedVars, reportVars, resultVars,
                    runVars, poolVars, workerVars, limVars >>

\* a request goroutine has not returned
Live(t) == tasks[t].pc # "done"

\* the request goroutine returns without the deferred <-sem
TaskReturnKeepsSlot(t) ==
    /\ tasks' = [tasks EXCEPT ![t].pc = "done"]
    /\ UNCHANGED dispatchers

\* the request goroutine returns: defer func() { <-sem }()
TaskReturn(t) ==
    /\ tasks' = [tasks EXCEPT ![t].pc = "done"]
    /\ dispatchers' = [dispatchers EXCEPT ![tasks[t].gen].sem = @ - 1]

\* request goroutine: Execute(ctx, ep) returns, then
\* if result.Error != nil && ctx.Err() != nil { return }
TaskExecReturn(t, ok) ==
    /\ ~panicked
    /\ tasks[t].pc = "exec"
    /\ IF ~ok /\ ctxDone
       THEN TaskReturn(t)
       ELSE /\ tasks' = [tasks EXCEPT ![t].pc = "send", ![t].ok = ok]
            /\ UNCHANGED dispatchers
    /\ UNCHANGED << apc, pendingRate, dispatchCancel, lastRate, started >>
    /\ UNCHANGED << cfg, unitVars, ctxDone, panicked, schedVars, reportVars, resultVars, colVars,
                    runVars, poolVars, workerVars, limVars >>

\* request goroutine: select, case resultCh <- result (panics on a closed channel)
TaskSend(t) ==
    /\ ~panicked
    /\ tasks[t].pc = "send"
    /\ IF resultClosed
       THEN /\ panicked' = TRUE
            /\ UNCHANGED << resultCh, sentLog, tasks, dispatchers >>
       ELSE /\ Len(resultCh) < ResultChCap
            /\ resultCh' = Append(resultCh, [id |-> t, ok |-> tasks[t].ok])
            /\ sentLog' = Append(sentLog, t)
            /\ TaskReturn(t)
            /\ UNCHANGED panicked
    /\ UNCHANGED << apc, pendingRate, dispatchCancel, lastRate >>
    /\ UNCHANGED << resultClosed, resultCloses, drainDone >>
    /\ UNCHANGED << cfg, unitVars, ctxDone, schedVars, reportVars, colVars,
                    runVars, reqVars, poolVars, workerVars, limVars >>

\* the select racing the dispatcher's dCtx instead of the ambient ctx
TaskSendCancelledByRate(t) ==
    /\ ~panicked
    /\ tasks[t].pc = "send"
    /\ DispatchCtxDone(tasks[t].gen)
    /\ TaskReturn(t)
    /\ UNCHANGED << apc, pendingRate, dispatchCancel, lastRate >>
    /\ UNCHANGED << cfg, unitVars, ctxDone, panicked, schedVars, reportVars, resultVars, colVars,
                    runVars, reqVars, poolVars, workerVars, limVars >>

\* request goroutine: select, case <-ctx.Done()
TaskSendCancelled(t) ==
    /\ ~panicked
    /\ tasks[t].pc = "send"
    /\ ctxDone
    /\ TaskReturn(t)
    /\ UNCHANGED << apc, pendingRate, dispatchCancel, lastRate >>
    /\ UNCHANGED << cfg, unitVars, ctxDone, panicked, schedVars, reportVars, resultVars, colVars,
                    runVars, reqVars, poolVars, workerVars, limVars >>

\* ------------------------------------------- metrics.Collector on its own
\* metrics.Result: endpoint name, duration in ms, success, bytes received
Result(n, d, ok, b) ==
    [EndpointName |-> n, Duration |-> d, Success |-> ok, BytesReceived |-> b]

\* the Results the recording goroutines pass to Record
ResultSet ==
    { Result("alpha", 1, TRUE, 1), Result("alpha", 3, TRUE, 1),
      Result("alpha", 2, FALSE, 0), Result("beta", 2, TRUE, 1),
      Result("beta", 3, FALSE, 0), Result("beta", 1, TRUE, 1) }

\* the goroutines that call Record
Recorders == { 1, 2 }

\* &endpointData{}
NoData == [durations |-> << >>, successes |-> 0, errors |-> 0, bytes |-> 0]

NoRecord == [pc |-> "idle", r |-> Result("", 0, TRUE, 0), ep |-> NoData]

\* the collector after the loop of TestPercentiles_KnownDataset: 1 ms, 2 ms,
\* ..., 100 ms recorded for one endpoint, all successful
KnownEndpoints ==
    [n \in { "ep" } |->
        [durations |-> [i \in 1..KnownSize |-> i], successes |-> KnownSize,
         errors |-> 0, bytes |-> 0]]

KnownResults == [r \in { Result("ep", i, TRUE, 0) : i \in 1..KnownSize } |-> 1]

\* Record calls made so far, returned or not
RecordCalls == BagCardinality(recDone) + Cardinality({ g \in Recorders : rec[g].pc # "idle" })

\* a Lock that does not wait for the holder
RecordLockFree(g, r) ==
    /\ rec[g].pc = "idle"
    /\ RecordCalls < MaxRecords
    /\ mu' = g
    /\ rec' = [rec EXCEPT ![g] = [pc |-> "locked", r |-> r, ep |-> NoData]]
    /\ UNCHANGED << endpoints, recDone, snap >>
    /\ UNCHANGED << engineVars, execVars, webVars >>

\* Collector.Record(r): c.mu.Lock()
RecordLock(g, r) ==
    /\ rec[g].pc = "idle"
    /\ RecordCalls < MaxRecords
    /\ mu = 0
    /\ mu' = g
    /\ rec' = [rec EXCEPT ![g] = [pc |-> "locked", r |-> r, ep |-> NoData]]
    /\ UNCHANGED << endpoints, recDone, snap >>
    /\ UNCHANGED << engineVars, execVars, webVars >>

\* ep, ok := c.endpoints[r.EndpointName]; a missing entry is created
RecordLookup(g) ==
    /\ rec[g].pc = "locked"
    /\ LET name == rec[g].r.EndpointName
       IN  IF name \in DOMAIN endpoints
           THEN /\ rec' = [rec EXCEPT ![g].pc = "found", ![g].ep = endpoints[name]]
                /\ UNCHANGED endpoints
           ELSE /\ rec' = [rec EXCEPT ![g].pc = "found", ![g].ep = NoData]
                /\ endpoints' = (name :> NoData) @@ endpoints
    /\ UNCHANGED << mu, recDone, snap >>
    /\ UNCHANGED << engineVars, execVars, webVars >>

\* the append to ep.durations, ep.bytes += ..., ep.successes++ or ep.errors++
RecordUpdate(g) ==
    /\ rec[g].pc = "found"
    /\ LET r == rec[g].r
           ep == rec[g].ep
       IN  endpoints' = [endpoints EXCEPT ![r.EndpointName] =
               [durations |-> Append(ep.durations, r.Duration),
                bytes     |-> ep.bytes + r.BytesReceived,
                successes |-> IF r.Success THEN ep.successes + 1 ELSE ep.successes,
                errors    |-> IF r.Success THEN ep.errors ELSE ep.errors + 1]]
    /\ rec' = [rec EXCEPT ![g].pc = "updated"]
    /\ UNCHANGED << mu, recDone, snap >>
    /\ UNCHANGED << engineVars, execVars, webVars >>

\* the deferred c.mu.Unlock(); Record returns
RecordUnlock(g) ==
    /\ rec[g].pc = "updated"
    /\ mu' = 0
    /\ recDone' = recDone (+) SetToBag({ rec[g].r })
    /\ rec' = [rec EXCEPT ![g] = NoRecord]
    /\ UNCHANGED << endpoints, snap >>
    /\ UNCHANGED << engineVars, execVars, webVars >>

\* no sorting: the durations in the order they were recorded
SortSliceNot(s) == s

\* sort.Slice(s, less) with less the order of the durations: the ascending
\* arrangement (equal durations are indistinguishable)
SortSlice(s) ==
    LET n == Len(s)
        pos == [i \in 1..n |->
                  Cardinality({ j \in 1..n : s[j] < s[i] \/ (s[j] = s[i] /\ j < i) }) + 1]
    IN  [k \in 1..n |-> s[CHOOSE i \in 1..n : pos[i] = k]]

\* the index L*p/100 instead, capped at the last element
percentileUpper(sorted, p) ==
    IF Len(sorted) = 0 THEN 0
    ELSE sorted[Min(Quot(Len(sorted) * p, 100).int, Len(sorted) - 1) + 1]

\* percentile: idx := int(float64(len(sorted)-1) * p / 100.0); sorted[idx]
percentile(sorted, p) ==
    IF Len(sorted) = 0 THEN 0
    ELSE sorted[Quot((Len(sorted) - 1) * p, 100).int + 1]

RECURSIVE SumRange(_, _, _)
SumRange(s, lo, hi) ==
    IF lo > hi THEN 0
    ELSE IF lo = hi THEN s[lo]
         ELSE SumRange(s, lo, (lo + hi) \div 2) + SumRange(s, (lo + hi) \div 2 + 1, hi)

\* average: sum / time.Duration(len(durations))
average(durations) ==
    IF Len(durations) = 0 THEN 0
    ELSE SumRange(durations, 1, Len(durations)) \div Len(durations)

\* the latency fields of a Stats or EndpointStats, from the durations
Latencies(durations) ==
    IF Len(durations) > 0
    THEN LET sorted == SortSlice(durations)
         IN  [P50 |-> percentile(sorted, 50), P90 |-> percentile(sorted, 90),
              P95 |-> percentile(sorted, 95), P99 |-> percentile(sorted, 99),
              Min |-> sorted[1], Max |-> sorted[Len(sorted)],
              Avg |-> average(sorted)]
    ELSE [P50 |-> 0, P90 |-> 0, P95 |-> 0, P99 |-> 0, Min |-> 0, Max |-> 0, Avg |-> 0]

\* Snapshot, the body of the loop over c.endpoints
EndpointStats(name, ep) ==
    [Name |-> name, TotalRequests |-> ep.successes + ep.errors,
     SuccessCount |-> ep.successes, ErrorCount |-> ep.errors,
     TotalBytes |-> ep.bytes] @@ Latencies(ep.durations)

\* the orders in which a range over the map can visit its keys
Orders(names) ==
    { o \in [1..Cardinality(names) -> names] :
        \A i, j \in DOMAIN o : i # j => o[i] # o[j] }

\* Snapshot, what the loop accumulates over the endpoints visited in order o
RECURSIVE Accumulate(_, _)
Accumulate(eps, o) ==
    IF o = << >>
    THEN [TotalRequests |-> 0, SuccessCount |-> 0, ErrorCount |-> 0, allDurations |-> << >>]
    ELSE LET ep == eps[o[Len(o)]]
             acc == Accumulate(eps, SubSeq(o, 1, Len(o) - 1))
         IN  [TotalRequests |-> acc.TotalRequests + ep.successes + ep.errors,
              SuccessCount  |-> acc.SuccessCount + ep.successes,
              ErrorCount    |-> acc.ErrorCount + ep.errors,
              allDurations  |-> acc.allDurations \o ep.durations]

\* the global counters of the first endpoint visited only
StatsFirstOnly(eps, o) ==
    LET acc == Accumulate(eps, SubSeq(o, 1, Min(1, Len(o))))
    IN  [TotalRequests |-> acc.TotalRequests, SuccessCount |-> acc.SuccessCount,
         ErrorCount |-> acc.ErrorCount, ActiveVUs |-> activeVUs,
         PerEndpoint |-> [n \in DOMAIN eps |-> EndpointStats(n, eps[n])]]
        @@ Latencies(acc.allDurations)

\* Collector.Snapshot: the Stats value, the map visited in order o
Stats(eps, o) ==
    LET acc == Accumulate(eps, o)
    IN  [TotalRequests |-> acc.TotalRequests, SuccessCount |-> acc.SuccessCount,
         ErrorCount |-> acc.ErrorCount, ActiveVUs |-> activeVUs,
         PerEndpoint |-> [n \in DOMAIN eps |-> EndpointStats(n, eps[n])]]
        @@ Latencies(acc.allDurations)

\* Snapshot sorting ep.durations itself instead of a copy
SnapshotCallInPlace ==
    /\ mu = 0
    /\ \E o \in Orders(DOMAIN endpoints) :
          snap' = << [stats |-> Stats(endpoints, o), of |-> endpoints,
                      returned |-> BagCardinality(recDone)] >>
    /\ endpoints' = [n \in DOMAIN endpoints |->
                       [endpoints[n] EXCEPT !.durations = SortSlice(@)]]
    /\ UNCHANGED << mu, rec, recDone >>
    /\ UNCHANGED << engineVars, execVars, webVars >>

\* a Snapshot call: Lock, compute, Unlock, return
SnapshotCall ==
    /\ mu = 0
    /\ \E o \in Orders(DOMAIN endpoints) :
          snap' = << [stats |-> Stats(endpoints, o), of |-> endpoints,
                      returned |-> BagCardinality(recDone)] >>
    /\ UNCHANGED << mu, endpoints, rec, recDone >>
    /\ UNCHANGED << engineVars, execVars, webVars >>

\* the levels SetActiveVUs is called with
ActiveLevels == { 0, 1 }

\* a SetActiveVUs call on the collector: Lock, c.activeVUs = n, Unlock
SetActiveVUsCall(n) ==
    /\ mu = 0
    /\ SetActiveVUs(n)
    /\ UNCHANGED << cfg, ctxDone, panicked, schedVars, reportVars, resultVars,
                    runVars, reqVars, poolVars, workerVars, limVars, arVars >>
    /\ UNCHANGED unitVars

\* NewCollector, or the collector loaded with the data set ds
InitMetrics(eps, done) ==
    /\ mu = 0
    /\ endpoints = eps
    /\ rec = [g \in Recorders |-> NoRecord]
    /\ recDone = done
    /\ snap = << >>

\* --------------------------------------------- worker.Executor on its own
\* NewExecutor: w := ep.Weight; if w <= 0 { w = 1 }; total += w; cum[i] = total
RECURSIVE cumWeights(_)
cumWeights(ws) ==
    IF ws = << >> THEN << >>
    ELSE LET cum == cumWeights(SubSeq(ws, 1, Len(ws) - 1))
             w == IF ws[Len(ws)] <= 0 THEN 1 ELSE ws[Len(ws)]
         IN  Append(cum, (IF cum = << >> THEN 0 ELSE cum[Len(cum)]) + w)

totalWeight(ws) == cumWeights(ws)[Len(ws)]

\* sort.SearchInts(a, x), zero-based: the binary search of sort.Search between
\* i and j for the first index whose element is >= x
RECURSIVE Search(_, _, _, _)
Search(a, x, i, j) ==
    IF i < j
    THEN LET h == (i + j) \div 2
         IN  IF a[h + 1] < x THEN Search(a, x, h + 1, j) ELSE Search(a, x, i, h)
    ELSE i

SearchInts(a, x) == Search(a, x, 0, Len(a))

\* the search for r instead of r+1
SelectIndexAtDraw(ws, r) ==
    IF Len(ws) = 1 THEN 0
    ELSE Min(SearchInts(cumWeights(ws), r), Len(ws) - 1)

\* SelectEndpoint, the zero-based index it returns when rand.Intn gives r
SelectIndex(ws, r) ==
    IF Len(ws) = 1 THEN 0
    ELSE Min(SearchInts(cumWeights(ws), r + 1), Len(ws) - 1)

\* a SelectEndpoint call; a single endpoint is returned without a draw
SelectEndpointCall ==
    /\ \E r \in 0..(totalWeight(exWeights) - 1) :
          /\ Len(exWeights) = 1 => r = 0
          /\ selected' = << [r |-> r, idx |-> SelectIndex(exWeights, r)] >>
    /\ UNCHANGED << exWeights, result >>
    /\ UNCHANGED << engineVars, metricVars, webVars >>

\* the endpoints Execute is called with: expect.status 0 (any) or 200
ExpectSet == { 0, 200 }

\* what the request meets: NewRequestWithContext fails, client.Do fails, or
\* a response arrives with a status code
Outcomes ==
    { [kind |-> "build", status |-> 0], [kind |-> "transport", status |-> 0] }
      \cup { [kind |-> "response", status |-> c] : c \in { 200, 404 } }

\* a status mismatch that sets the error and leaves success true
ExecuteKeepsSuccess(expect, out) ==
    IF out.kind = "build"
    THEN [StatusCode |-> 0, Error |-> "building request", Success |-> FALSE]
    ELSE IF out.kind = "transport"
         THEN [StatusCode |-> 0, Error |-> "transport", Success |-> FALSE]
         ELSE IF expect # 0 /\ out.status # expect
              THEN [StatusCode |-> out.status, Error |-> "expected status", Success |-> TRUE]
              ELSE [StatusCode |-> out.status, Error |-> "nil", Success |-> TRUE]

\* Executor.Execute: the Result for an endpoint with ep.Expect.Status = expect
Execute(expect, out) ==
    IF out.kind = "build"
    THEN [StatusCode |-> 0, Error |-> "building request", Success |-> FALSE]
    ELSE IF out.kind = "transport"
         THEN [StatusCode |-> 0, Error |-> "transport", Success |-> FALSE]
         ELSE IF expect # 0 /\ out.status # expect
              THEN [StatusCode |-> out.status, Error |-> "expected status", Success |-> FALSE]
              ELSE [StatusCode |-> out.status, Error |-> "nil", Success |-> TRUE]

\* an Execute call
ExecuteCall ==
    /\ \E expect \in ExpectSet, out \in Outcomes :
          result' = << [expect |-> expect, out |-> out, res |-> Execute(expect, out)] >>
    /\ UNCHANGED << exWeights, selected >>
    /\ UNCHANGED << engineVars, metricVars, webVars >>

\* NewExecutor(endpoints, ...) with the weights ws
InitExecutor(ws) ==
    /\ exWeights = ws
    /\ selected = << >>
    /\ result = << >>

\* --------------------------------------------------- web.State on its own
\* the ids generateID can draw (4 random bytes: two calls may draw the same)
IdSet == { "0a", "0b" }

\* the goroutines (HTTP handlers) that call StartTest and StopTest
Starters == { 1, 2 }

\* s.mu is free
Free == << >>

\* return nil / return run
Nil == << >>
Run(k) == << k >>

\* the TestRun objects whose Status is "running"
RunningTests == { k \in DOMAIN runs : runs[k].Status = "running" }

\* StartTest without s.mu.Lock() waiting for the mutex
StartTestLockFree(c) ==
    /\ starters[c].pc \in { "idle", "returned" }
    /\ Len(runs) < MaxTests
    /\ state' = [state EXCEPT !.mu = << "starter", c >>]
    /\ starters' = [starters EXCEPT ![c] = [pc |-> "locked", ret |-> Nil]]
    /\ UNCHANGED runs
    /\ UNCHANGED << engineVars, metricVars, execVars >>

\* State.StartTest: s.mu.Lock()
StartTestLock(c) ==
    /\ starters[c].pc \in { "idle", "returned" }
    /\ Len(runs) < MaxTests
    /\ state.mu = Free
    /\ state' = [state EXCEPT !.mu = << "starter", c >>]
    /\ starters' = [starters EXCEPT ![c] = [pc |-> "locked", ret |-> Nil]]
    /\ UNCHANGED runs
    /\ UNCHANGED << engineVars, metricVars, execVars >>

\* State.StartTest under the lock: if s.activeID != "" { Unlock; return nil }
StartTestCheck(c) ==
    /\ starters[c].pc = "locked"
    /\ IF state.activeID # ""
       THEN /\ state' = [state EXCEPT !.mu = Free]
            /\ starters' = [starters EXCEPT ![c] = [pc |-> "returned", ret |-> Nil]]
       ELSE /\ starters' = [starters EXCEPT ![c].pc = "create"]
            /\ UNCHANGED state
    /\ UNCHANGED runs
    /\ UNCHANGED << engineVars, metricVars, execVars >>

\* State.StartTest, still under the lock: the run is made with Status
\* "running", stored under its id and made the active one; then the mutex
\* is released, the goroutine started and the run returned
StartTestCreate(c, id) ==
    /\ starters[c].pc = "create"
    /\ runs' = Append(runs, [ID |-> id, Status |-> "running",
                              cancelled |-> FALSE, pc |-> "engine"])
    /\ state' = [mu |-> Free,
                 tests |-> (id :> (Len(runs) + 1)) @@ state.tests,
                 order |-> Append(state.order, id),
                 activeID |-> id]
    /\ starters' = [starters EXCEPT
                       ![c] = [pc |-> "returned", ret |-> Run(Len(runs) + 1)]]
    /\ UNCHANGED << engineVars, metricVars, execVars >>

\* the run's goroutine: eng.Run returns (with an error or not), then
\* run.Status = "stopped" | "failed" | "completed", written without the mutex
TestFinish(k, failed) ==
    /\ runs[k].pc = "engine"
    /\ runs' = [runs EXCEPT ![k].pc = "finished",
                            ![k].Status = IF runs[k].cancelled THEN "stopped"
                                          ELSE IF failed THEN "failed"
                                          ELSE "completed"]
    /\ UNCHANGED << state, starters >>
    /\ UNCHANGED << engineVars, metricVars, execVars >>

\* the run's goroutine: s.mu.Lock()
TestLock(k) ==
    /\ runs[k].pc = "finished"
    /\ state.mu = Free
    /\ state' = [state EXCEPT !.mu = << "run", k >>]
    /\ runs' = [runs EXCEPT ![k].pc = "locked"]
    /\ UNCHANGED starters
    /\ UNCHANGED << engineVars, metricVars, execVars >>

\* the run's goroutine: s.activeID = ""; s.mu.Unlock()
TestClear(k) ==
    /\ runs[k].pc = "locked"
    /\ state' = [state EXCEPT !.mu = Free, !.activeID = ""]
    /\ runs' = [runs EXCEPT ![k].pc = "exited"]
    /\ UNCHANGED starters
    /\ UNCHANGED << engineVars, metricVars, execVars >>

\* what an unsynchronised read of run.Status can return: the goroutine's
\* write is ordered before the read only once the goroutine has unlocked
SeenStatus(k) ==
    IF runs[k].pc \in { "finished", "locked" }
    THEN { "running", runs[k].Status }
    ELSE { runs[k].Status }

\* State.StopTest(id): tr := s.tests[id] under RLock, then
\* if tr != nil && tr.Status == "running" && tr.Cancel != nil { tr.Cancel() }
StopTest(id) ==
    /\ state.mu = Free
    /\ id \in DOMAIN state.tests
    /\ \E seen \in SeenStatus(state.tests[id]) :
          runs' = [runs EXCEPT ![state.tests[id]].cancelled = (@ \/ seen = "running")]
    /\ UNCHANGED << state, starters >>
    /\ UNCHANGED << engineVars, metricVars, execVars >>

\* NewState()
InitState ==
    /\ state = [mu |-> Free, tests |-> << >>, order |-> << >>, activeID |-> ""]
    /\ runs = << >>
    /\ starters = [c \in Starters |-> [pc |-> "idle", ret |-> Nil]]

\* ------------------------------------------------------------------ Init
\* Engine.Run up to the dispatch: channels made, goroutines started
InitEngine(configs) ==
    /\ cfg \in configs
    /\ ctxDone = FALSE
    /\ panicked = FALSE
    /\ spc = "run"
    /\ elapsed = 0
    /\ lastSent = -1
    /\ pending = NoPending
    /\ targetCh = << >>
    /\ targetClosed = FALSE
    /\ schedDone = FALSE
    /\ emitted = << >>
    /\ reportDone = FALSE
    /\ resultCh = << >>
    /\ resultClosed = FALSE
    /\ resultCloses = 0
    /\ sentLog = << >>
    /\ drainDone = FALSE
    /\ colDurations = << >>
    /\ colSuccesses = 0
    /\ colErrors = 0
    /\ activeVUs = 0
    /\ runPc = "dispatch"
    /\ finalStats = << >>
    /\ retErr = FALSE
    /\ started = 0
    /\ dpc = (IF cfg.mode = "vu" THEN "recv" ELSE "none")
    /\ workers = 0
    /\ toRemove = << >>
    /\ cancelSent = FALSE
    /\ lastApplied = -1
    /\ wpc = [i \in Slots |-> "none"]
    /\ wCancelled = [i \in Slots |-> FALSE]
    /\ wres = [i \in Slots |-> NoReq]
    /\ tokens = 0
    /\ deposited = 0
    /\ fillerLive = (cfg.mode # "arrival_rate" /\ ~LimiterNil)
    /\ apc = (IF cfg.mode = "arrival_rate" THEN "recv" ELSE "none")
    /\ pendingRate = 0
    /\ dispatchers = << >>
    /\ dispatchCancel = 0
    /\ tasks = << >>
    /\ lastRate = -1

\* the engine started, the other components as constructed
InitWith(configs) ==
    /\ InitEngine(configs)
    /\ InitMetrics(<< >>, EmptyBag)
    /\ InitExecutor(<< 1 >>)
    /\ InitState

\* actions every run takes: the caller, scheduler, reporter, drain, Run itself
NextCommon ==
    \/ CancelCtx
    \/ SchedTick
    \/ SchedSend
    \/ SchedSendCancelled
    \/ SchedCtxDone
    \/ SchedClose
    \/ ReporterTick
    \/ ReporterExit
    \/ DrainRecord
    \/ DrainExit
    \/ RunCloseResults
    \/ RunFinish

\* load.mode = "vu": runVU, its workers and the limiter
NextVU ==
    \/ LimiterFill
    \/ LimiterExit
    \/ VURecv
    \/ VUClosed
    \/ VUCancel
    \/ VUJoin
    \/ \E i \in Slots : WorkerTop(i)
    \/ \E i \in Slots : WorkerWaitToken(i)
    \/ \E i \in Slots : WorkerWaitCancelled(i)
    \/ \E i \in Slots, ok \in BOOLEAN : WorkerExecReturn(i, ok)
    \/ \E i \in Slots : WorkerSend(i)
    \/ \E i \in Slots : WorkerSendCancelled(i)
    \/ \E i \in Slots : WorkerThinkDone(i)
    \/ \E i \in Slots : WorkerThinkCancelled(i)

\* load.mode = "arrival_rate": runArrivalRate, its dispatchers and request tasks
NextAR ==
    \/ ARRecv
    \/ ARJoin
    \/ ARClosed
    \/ ARFinalJoin
    \/ \E g \in DOMAIN dispatchers : DispExit(g)
    \/ \E g \in DOMAIN dispatchers : DispAcquire(g)
    \/ \E g \in DOMAIN dispatchers : DispDrop(g)
    \/ \E g \in DOMAIN dispatchers : DispLoop(g)
    \/ \E g \in DOMAIN dispatchers : DispSpawn(g)
    \/ \E t \in DOMAIN tasks, ok \in BOOLEAN : TaskExecReturn(t, ok)
    \/ \E t \in DOMAIN tasks : TaskSend(t)
    \/ \E t \in DOMAIN tasks : TaskSendCancelled(t)

InitVU == InitWith(VUConfigs)
InitAR == InitWith(ARConfigs)
Init == InitWith(VUConfigs \cup ARConfigs)

Next == NextCommon \/ NextVU \/ NextAR

\* a run in VU mode, a run in arrival-rate mode, a run in either mode
SpecVU == InitVU /\ [][NextCommon \/ NextVU]_vars
SpecAR == InitAR /\ [][NextCommon \/ NextAR]_vars
Spec == Init /\ [][Next]_vars

\* Scheduler.Run on its own: the caller that may cancel, the scheduler, and a
\* reader of the output channel that may or may not read
InitSched == InitWith(SchedConfigs)

NextSched ==
    \/ CancelCtx
    \/ SchedTick
    \/ SchedSend
    \/ SchedSendCancelled
    \/ SchedCtxDone
    \/ OutRecv

SpecSched == InitSched /\ [][NextSched]_vars

\* the scheduler on its own, also over profiles whose first tick computes 0:
\* a first stage at level 0, and a ramp that is below 0.5 at 100 ms
ProfileIdle == << Stage(1, 0, "step"), Stage(2, 2, "step") >>
ProfileSlow == << Stage(3, 1, "linear") >>

InitFirstTick ==
    InitWith(SchedConfigs \cup
             { [mode |-> "none", stages |-> p, maxRPS |-> Rat(0, 1), thinkTime |-> 0,
                fma |-> FALSE] : p \in { ProfileIdle, ProfileSlow } })

SpecFirstTick == InitFirstTick /\ [][NextSched]_vars

\* a run in VU mode with a rate limiter
InitLimiter == InitWith(LimiterConfigs)

SpecLimiter == InitLimiter /\ [][NextCommon \/ NextVU]_vars

\* a step of worker goroutine i
WorkerStep(i) ==
    \/ WorkerTop(i)
    \/ WorkerWaitToken(i)
    \/ WorkerWaitCancelled(i)
    \/ \E ok \in BOOLEAN : WorkerExecReturn(i, ok)
    \/ WorkerSend(i)
    \/ WorkerSendCancelled(i)
    \/ WorkerThinkDone(i)
    \/ WorkerThinkCancelled(i)

\* the Go scheduler runs every goroutine that can run, and an HTTP request
\* returns (the client has a timeout, and a cancelled context aborts it)
FairWorkers == \A i \in Slots : WF_vars(WorkerStep(i))

\* the limiter runs, with workers that are scheduled fairly
SpecWorkerLive == InitLimiter /\ [][NextCommon \/ NextVU]_vars /\ FairWorkers

\* every goroutine of the engine that can run does run; a select whose
\* Done case is ready again and again takes it in the end (the choice among
\* ready cases is random); every HTTP request returns
FairEngine ==
    /\ WF_vars(SchedTick \/ SchedSend \/ SchedSendCancelled \/ SchedCtxDone \/ SchedClose)
    /\ WF_vars(ReporterExit)
    /\ WF_vars(DrainRecord \/ DrainExit)
    /\ WF_vars(RunCloseResults \/ RunFinish)

FairAR ==
    /\ WF_vars(ARRecv \/ ARJoin \/ ARClosed \/ ARFinalJoin)
    /\ SF_vars(\E g \in DOMAIN dispatchers : DispExit(g))
    /\ WF_vars(\E g \in DOMAIN dispatchers : DispLoop(g) \/ DispSpawn(g))
    /\ WF_vars(\E t \in DOMAIN tasks, ok \in BOOLEAN : TaskExecReturn(t, ok))
    /\ WF_vars(\E t \in DOMAIN tasks : TaskSend(t) \/ TaskSendCancelled(t))

\* whole arrival-rate runs under these scheduling assumptions
SpecARLive == InitAR /\ [][NextCommon \/ NextAR]_vars /\ FairEngine /\ FairAR

\* a Collector on its own: goroutines that record, a goroutine that takes
\* snapshots; the collector starts empty or holds the known data set
UnitConfig ==
    [mode |-> "none", stages |-> ProfileOne, maxRPS |-> Rat(0, 1), thinkTime |-> 0,
     fma |-> FALSE]

InitCollector ==
    /\ InitEngine({ UnitConfig })
    /\ \/ InitMetrics(<< >>, EmptyBag)
       \/ InitMetrics(KnownEndpoints, KnownResults)
    /\ InitExecutor(<< 1 >>)
    /\ InitState

NextCollector ==
    \/ \E g \in Recorders, r \in ResultSet : RecordLock(g, r)
    \/ \E g \in Recorders : RecordLookup(g)
    \/ \E g \in Recorders : RecordUpdate(g)
    \/ \E g \in Recorders : RecordUnlock(g)
    \/ SnapshotCall

SpecCollector == InitCollector /\ [][NextCollector]_vars

\* the same Collector, its active level set by a further goroutine
NextSnapshot ==
    \/ NextCollector
    \/ \E n \in ActiveLevels : SetActiveVUsCall(n)

SpecSnapshot == InitCollector /\ [][NextSnapshot]_vars

\* an Executor on its own, over every list of one to MaxEndpoints weights
WeightLists ==
    UNION { [1..n -> (-1)..MaxWeight] : n \in 1..MaxEndpoints }

InitExec ==
    /\ InitEngine({ UnitConfig })
    /\ InitMetrics(<< >>, EmptyBag)
    /\ \E ws \in WeightLists : InitExecutor(ws)
    /\ InitState

SpecExecutor == InitExec /\ [][SelectEndpointCall \/ ExecuteCall]_vars

\* a State on its own: handlers that start and stop tests, the runs' goroutines
InitWeb ==
    /\ InitEngine({ UnitConfig })
    /\ InitMetrics(<< >>, EmptyBag)
    /\ InitExecutor(<< 1 >>)
    /\ InitState

NextWeb ==
    \/ \E c \in Starters : StartTestLock(c)
    \/ \E c \in Starters : StartTestCheck(c)
    \/ \E c \in Starters, id \in IdSet : StartTestCreate(c, id)
    \/ \E k \in DOMAIN runs, failed \in BOOLEAN : TestFinish(k, failed)
    \/ \E k \in DOMAIN runs : TestLock(k)
    \/ \E k \in DOMAIN runs : TestClear(k)
    \/ \E id \in IdSet : StopTest(id)

SpecWeb == InitWeb /\ [][NextWeb]_vars

\* Scheduler.targetAt on its own, over the stage lists of StageLists
InitTargetAt == InitWith(TargetAtConfigs)

SpecTargetAt == InitTargetAt /\ [][TargetAtCall]_vars

\* ======================================================================
\* Properties
\* ======================================================================
\* worker goroutines that have not returned
RunningSlots == {i \in Slots : Running(i)}

\* request goroutines that have not returned
LiveTasks == {t \in DOMAIN tasks : Live(t)}

\* dispatcher goroutines that have not returned
LiveDispatchers == {g \in DOMAIN dispatchers : dispatchers[g].pc # "exited"}

\* ids of the requests whose Execute call has not returned yet
InExecute ==
    {wres[i].id : i \in {j \in Slots : wpc[j] = "exec"}}
        \cup {t \in DOMAIN tasks : tasks[t].pc = "exec"}

\* ids of the requests that were executed: Execute was called and returned
Executed == (1..started) \ InExecute

\* number of times id occurs in a sequence of ids
Count(id, seq) == Cardinality({k \in DOMAIN seq : seq[k] = id})

\* the ids a sequence holds
Ids(seq) == {seq[k] : k \in DOMAIN seq}

\* ---------------------------------------------------------------- C1
\* C1 (as claimed): in both modes the results channel is closed only after
\* every worker and every request task that can send on it has terminated,
\* so nothing is ever sent on the closed channel (no panic).
C1_ClosedOnlyAfterSenders ==
    resultClosed =>
        /\ RunningSlots = {}
        /\ LiveTasks = {}
        /\ ~panicked

\* C1, VU mode only: runVU joins every worker before Run closes the channel.
C1_VUClosedOnlyAfterWorkers ==
    resultClosed => RunningSlots = {} /\ ~panicked

\* ---------------------------------------------------------------- C2
\* C2 (as claimed): when Run has returned, every executed request has exactly
\* one Result recorded by the collector and counted in the final snapshot.
C2_ExactlyOnePerExecuted ==
    runPc = "returned" =>
        /\ \A id \in Executed : Count(id, colDurations) = 1
        /\ finalStats[1].TotalRequests = Cardinality(Executed)

\* C2 (amended): no request is ever counted twice, only executed requests are
\* counted, and when Run has returned the collector holds exactly the Results
\* the results channel accepted, each once, all counted in the final snapshot.
C2_AtMostOnceAndSentRecorded ==
    /\ \A id \in 1..started : Count(id, colDurations) + Count(id, [k \in DOMAIN resultCh |-> resultCh[k].id]) <= 1
    /\ Ids(colDurations) \subseteq Executed
    /\ colSuccesses + colErrors = Len(colDurations)
    /\ runPc = "returned" =>
          /\ \A id \in 1..started :
                Count(id, colDurations) = (IF id \in Ids(sentLog) THEN 1 ELSE 0)
          /\ finalStats[1].TotalRequests = Len(sentLog)
          /\ Len(sentLog) = Cardinality(Ids(sentLog))

\* C2 witness: Run returned, one executed request is recorded and another
\* executed request was dropped by its task.
C2_Witness ==
    /\ runPc = "returned"
    /\ Len(colDurations) = 1
    /\ Cardinality(Executed) = 2

\* ---------------------------------------------------------------- C3
\* C3 (as claimed): once setWorkerCount(T) has returned, exactly T workers
\* are running until the next target is applied.
C3_ExactlyTRunning ==
    (cfg.mode = "vu" /\ dpc \in {"recv", "returned"} /\ lastApplied >= 0) =>
        /\ workers = lastApplied
        /\ RunningSlots = 1..lastApplied

\* C3 (amended): the same, as long as the ambient context is not cancelled
\* (workers return on their own once it is).
C3_ExactlyTRunningUntilCancel ==
    (cfg.mode = "vu" /\ dpc \in {"recv", "returned"} /\ lastApplied >= 0 /\ ~ctxDone) =>
        /\ workers = lastApplied
        /\ RunningSlots = 1..lastApplied

\* C3 witness: a shrink to one worker has been applied and that worker runs.
C3_Witness ==
    /\ dpc = "recv"
    /\ lastApplied = 1
    /\ ~ctxDone
    /\ wpc[2] = "exited"
    /\ Running(1)

C5_InFlightWithinTwiceRate ==
    (cfg.mode = "arrival_rate" /\ apc = "recv" /\ lastRate >= 0) =>
        Cardinality(LiveTasks) <= 2 * lastRate

\* ---------------------------------------------------------------- C6
\* C6: on a tick that finds the dispatcher's semaphore full no task is
\* spawned and no slot taken, the dispatcher is left at the top of its loop
\* (next tick or cancellation) with nothing recorded about the dropped tick.
C6_FullSemDropsTick ==
    [][\A g \in DOMAIN dispatchers :
          /\ (/\ dispatchers[g].pc = "loop"
              /\ dispatchers[g].sem >= SemCap(g)
              /\ dispatchers'[g].pc # "loop")
             => /\ dispatchers'[g].pc \in {"dropped", "exited"}
                /\ dispatchers'[g].sem = dispatchers[g].sem
                /\ tasks' = tasks
                /\ started' = started
          /\ (dispatchers[g].pc = "dropped" /\ dispatchers'[g] # dispatchers[g])
             => \/ /\ dispatchers'[g] = [dispatchers[g] EXCEPT !.pc = "loop"]
                   /\ tasks' = tasks
                   /\ started' = started
                \/ dispatchers'[g].pc = "dropped"
      ]_vars

\* C6 witness: a dispatcher has just dropped a tick
C6_Witness ==
    \E g \in DOMAIN dispatchers :
        /\ dispatchers[g].pc = "dropped"
        /\ dispatchers[g].sem = SemCap(g)

\* ---------------------------------------------------------------- C7
\* C7: a rate change leaves the request tasks alone: the step that cancels or
\* replaces the dispatcher changes no task, and a task ends without its
\* Result being put on the results channel only when the ambient context is
\* cancelled, never because its dispatcher was.
C7_RateChangeKeepsTasks ==
    [][/\ (apc' # apc \/ lastRate' # lastRate \/ dispatchCancel' # dispatchCancel)
          => tasks' = tasks
       /\ \A t \in DOMAIN tasks :
            tasks'[t] # tasks[t] =>
               \/ tasks[t].pc = "exec" /\ tasks'[t].pc = "send"
               \/ /\ tasks[t].pc = "send"
                  /\ tasks'[t].pc = "done"
                  /\ resultCh' = Append(resultCh, [id |-> t, ok |-> tasks[t].ok])
               \/ tasks'[t].pc = "done" /\ ctxDone
      ]_vars

\* C7 witness: the rate went to 0, the dispatcher is gone, a task it spawned
\* still holds its Result to send
C7_Witness ==
    \E t \in DOMAIN tasks :
        /\ tasks[t].pc = "send"
        /\ dispatchers[tasks[t].gen].pc = "exited"
        /\ lastRate = 0
        /\ ~ctxDone
        /\ ~resultClosed

\* ---------------------------------------------------------------- C8
\* C8: at most one dispatcher goroutine is live; every dispatcher but the
\* newest has terminated, and a live one is the current one.
C8_OneDispatcher ==
    /\ Cardinality(LiveDispatchers) <= 1
    /\ \A g \in DOMAIN dispatchers : g < Len(dispatchers) => dispatchers[g].pc = "exited"
    /\ \A g \in LiveDispatchers : dispatchCancel = g

\* C8 witness: a second dispatcher runs after the first was joined
C8_Witness ==
    /\ Len(dispatchers) >= 2
    /\ dispatchers[1].pc = "exited"
    /\ dispatchers[Len(dispatchers)].pc = "loop"

\* ---------------------------------------------------------------- C9
\* C9 (as claimed): when Run returns after the stages have elapsed, the
\* dispatcher has terminated and no request task is live.
C9_NoTaskLeakAtReturn ==
    (cfg.mode = "arrival_rate" /\ runPc = "returned" /\ ~ctxDone) =>
        /\ LiveDispatchers = {}
        /\ LiveTasks = {}

\* ---------------------------------------------------------------- C10
\* C10 (as claimed): after the ambient context is cancelled the run always
\* goes on until Run has returned, and the results channel is closed once:
\* no state after the cancel has Run not returned and nothing left to run.
C10_CancelledRunReturns ==
    /\ resultCloses <= 1
    /\ ctxDone => (runPc = "returned" \/ ENABLED <<NextCommon \/ NextAR>>_vars)

\* ---------------------------------------------------------------- C11
\* C11: Run returns a non-nil error if and only if the final snapshot's error
\* count is greater than zero; the final snapshot is the collector's state
\* after the drain goroutine has finished.
C11_ErrorIffErrorCount ==
    runPc = "returned" =>
        /\ finalStats # << >>
        /\ retErr <=> (finalStats[1].ErrorCount > 0)
        /\ finalStats[1].ErrorCount = colErrors
        /\ finalStats[1].ErrorCount = Len(sentLog) - colSuccesses

\* C11 witness: Run returned an error after one failed and one successful request
C11_Witness ==
    /\ runPc = "returned"
    /\ retErr
    /\ finalStats[1].ErrorCount = 1
    /\ finalStats[1].SuccessCount = 1

\* Scheduler.Run has returned
SchedReturned == spc \in {"returned", "done"}

\* ---------------------------------------------------------------- C12
\* C12 (as claimed): Scheduler.Run returns only when the total duration of
\* the stages has passed or its context is cancelled: while the context is
\* live it has not returned before elapsed reached the total duration.
C12_RunsUntilTotalOrCancel ==
    (SchedReturned /\ ~ctxDone) => elapsed >= TotalDuration(cfg.stages)

\* ---------------------------------------------------------------- C13
\* C13 (as claimed): when Scheduler.Run returns, the last value it emitted is
\* 0: always when the context is live (the stages have elapsed), and on
\* cancellation whenever the channel has room for a value.
C13_LastEmittedIsZero ==
    [][(/\ ~SchedReturned
        /\ SchedReturned'
        /\ ~ctxDone \/ Len(targetCh) < TargetChCap)
       => (/\ emitted' # << >>
           /\ emitted'[Len(emitted')] = 0)
      ]_vars

ValidStages(stgs) == \A i \in DOMAIN stgs : stgs[i].duration > 0

\* the end of stage i: the durations of the stages up to it
StageEnd(stgs, i) == TotalDuration(SubSeq(stgs, 1, i))

\* the stages whose end is not before el, and the first of them: the stage
\* that contains el
Within(stgs, el) == { i \in DOMAIN stgs : el <= StageEnd(stgs, i) }
Containing(stgs, el) ==
    CHOOSE i \in Within(stgs, el) : \A h \in Within(stgs, el) : i <= h

\* the declared target of the stage before stage i, 0 for the first
PrevTarget(stgs, i) == IF i = 1 THEN 0 ELSE stgs[i - 1].target

\* n/d >= 0 rounded to the nearest integer, a half away from zero
RoundRatio(n, d) == (2 * n + d) \div (2 * d)

\* the value the description gives at el: the stage's target for a step or
\* zero-duration stage, the exactly rounded interpolation for a linear one,
\* 0 past all stages
SpecifiedTarget(stgs, el) ==
    IF Within(stgs, el) = {} THEN 0
    ELSE LET i == Containing(stgs, el)
             stage == stgs[i]
             prev == PrevTarget(stgs, i)
             start == StageEnd(stgs, i - 1)
         IN  IF stage.ramp = "step" \/ stage.duration = 0
             THEN stage.target
             ELSE RoundRatio(prev * stage.duration
                               + (stage.target - prev) * (el - start),
                             stage.duration)

\* ---------------------------------------------------------------- C16
\* C16 (as claimed): for an elapsed time within a stage of a valid profile,
\* targetAt reports done only if that stage is the last one and elapsed is
\* exactly its end.
C16_DoneOnlyAtLastStageEnd ==
    (/\ spc = "called"
     /\ ValidStages(cfg.stages)
     /\ Within(cfg.stages, elapsed) # {}
     /\ pending.done)
    => (/\ Containing(cfg.stages, elapsed) = Len(cfg.stages)
        /\ elapsed = StageEnd(cfg.stages, Len(cfg.stages)))

\* ---------------------------------------------------------------- C17
\* C17 (as claimed): for a valid profile and every elapsed time, targetAt
\* returns the specified value: the target of a step stage, the interpolation
\* from the previous stage's declared target rounded half away from zero for
\* a linear stage, and 0 with done past all stages.
C17_TargetAtAsSpecified ==
    (spc = "called" /\ ValidStages(cfg.stages))
    => (/\ pending.target = SpecifiedTarget(cfg.stages, elapsed)
        /\ Within(cfg.stages, elapsed) = {} => pending.done)

\* ---------------------------------------------------------------- C18
\* C18: in a valid profile, targetAt(0) is 0 when the first stage is linear,
\* targetAt at the end of a stage is that stage's target, and within a linear
\* stage the value lies between the previous stage's target and the stage's
\* own, inclusive.
C18_EndpointsAndRange ==
    (spc = "called" /\ ValidStages(cfg.stages))
    => (/\ (elapsed = 0 /\ cfg.stages[1].ramp = "linear") => pending.target = 0
        /\ \A i \in DOMAIN cfg.stages :
              elapsed = StageEnd(cfg.stages, i)
              => pending.target = cfg.stages[i].target
        /\ Within(cfg.stages, elapsed) # {}
           => LET i == Containing(cfg.stages, elapsed)
                  prev == PrevTarget(cfg.stages, i)
              IN  cfg.stages[i].ramp = "linear"
                  => /\ Min(prev, cfg.stages[i].target) <= pending.target
                     /\ pending.target <= Max(prev, cfg.stages[i].target))

\* C18 witness: the end of a first linear stage of three ticks that is
\* followed by a step stage with another target
C18_Witness ==
    /\ spc = "called"
    /\ ~cfg.fma
    /\ cfg.stages = << Stage(3, 3, "linear"), Stage(1, 1, "step") >>
    /\ elapsed = 3
    /\ pending = [target |-> 3, done |-> FALSE]

\* ---------------------------------------------------------------- C19
\* C19: the bucket never holds more than max(1, floor(r)) tokens; a tick of
\* the producer on a full bucket leaves the bucket as it is, and the producer
\* can always take its tick: it never blocks on a full bucket.
C19_BucketBounded ==
    /\ [](tokens <= Max(1, cfg.maxRPS.num \div cfg.maxRPS.den))
    /\ [][(LimiterFill /\ tokens = Max(1, cfg.maxRPS.num \div cfg.maxRPS.den))
           => tokens' = tokens]_vars
    /\ []((fillerLive /\ ~panicked) => ENABLED LimiterFill)

\* C19 witness: 2.5 requests per second, the bucket holds its two tokens and
\* the producer is still running
C19_Witness ==
    /\ cfg.maxRPS = Rat(5, 2)
    /\ tokens = 2
    /\ fillerLive
    /\ ~ctxDone

C21_RequestsWithinTokens ==
    /\ [](~LimiterNil => (started <= deposited /\ started + tokens = deposited))
    /\ [][(~LimiterNil /\ started' # started)
           => (/\ started' = started + 1
               /\ tokens > 0
               /\ tokens' = tokens - 1
               /\ Cardinality({ i \in Slots : wpc[i] = "wait" /\ wpc'[i] = "exec" }) = 1
               /\ Cardinality({ i \in Slots : wpc[i] # "exec" /\ wpc'[i] = "exec" }) = 1)
      ]_vars

\* C21 witness: two workers wait on the shared limiter, the only token
\* deposited so far went to one of them and the other is still waiting
C21_Witness ==
    /\ cfg.stages = ProfileTwo
    /\ deposited = 1
    /\ tokens = 0
    /\ started = 1
    /\ \E i, j \in Slots : wpc[i] = "exec" /\ wpc[j] = "wait"

\* ------------------------------------------- the collector, as specified
\* the sum of f[n] over the names in S
RECURSIVE SumOver(_, _)
SumOver(f, S) ==
    IF S = {} THEN 0
    ELSE LET n == CHOOSE n \in S : TRUE IN f[n] + SumOver(f, S \ { n })

\* every duration a collector content holds, endpoint after endpoint
AllOf(eps) == Accumulate(eps, CHOOSE o \in Orders(DOMAIN eps) : TRUE).allDurations

\* the element at zero-based index idx of the ascending arrangement of d: the
\* value with at most idx smaller elements and more than idx elements not
\* larger
NthSmallest(d, idx) ==
    CHOOSE v \in { d[j] : j \in DOMAIN d } :
        /\ Cardinality({ j \in DOMAIN d : d[j] < v }) <= idx
        /\ Cardinality({ j \in DOMAIN d : d[j] <= v }) > idx

\* nearest rank: index floor((L - 1) * p / 100)
NearestRank(d, p) == NthSmallest(d, ((Len(d) - 1) * p) \div 100)

\* the percentiles and extremes of st are the nearest-rank ones of d
RankedAs(st, d) ==
    d # << >>
    => /\ st.P50 = NearestRank(d, 50)
       /\ st.P90 = NearestRank(d, 90)
       /\ st.P95 = NearestRank(d, 95)
       /\ st.P99 = NearestRank(d, 99)
       /\ st.Min = NthSmallest(d, 0)
       /\ st.Max = NthSmallest(d, Len(d) - 1)

\* the latency fields of a Stats or EndpointStats value
LatencyFields(st) == << st.P50, st.P90, st.P95, st.P99, st.Min, st.Max, st.Avg >>

\* the durations d in other orders: every order for a short list, the
\* reverse order for a long one
Arrangements(d) ==
    IF Len(d) <= 4
    THEN { [i \in DOMAIN d |-> d[f[i]]] : f \in Orders(DOMAIN d) }
    ELSE { d, [i \in DOMAIN d |-> d[Len(d) + 1 - i]] }

\* the collector contents that hold the same results as eps, recorded in
\* another order
Reorderings(eps) ==
    { e \in [DOMAIN eps -> UNION { { [eps[n] EXCEPT !.durations = a] :
                                        a \in Arrangements(eps[n].durations) } :
                                    n \in DOMAIN eps }] :
        \A n \in DOMAIN eps : e[n].durations \in Arrangements(eps[n].durations) }

\* the Record calls that have returned for an endpoint: by outcome, by duration
Returned(name, ok) ==
    BagCardinality([r \in { x \in DOMAIN recDone :
                               x.EndpointName = name /\ x.Success = ok } |-> recDone[r]])

ReturnedWith(name, d) ==
    BagCardinality([r \in { x \in DOMAIN recDone :
                               x.EndpointName = name /\ x.Duration = d } |-> recDone[r]])

\* ---------------------------------------------------------------- C22
\* C22: in every snapshot each endpoint's total is its successes plus its
\* errors, and the global total, success and error counts are the sums of
\* the per-endpoint counts.
C22_CountsAddUp ==
    snap # << >>
    => LET st == snap[1].stats
           pe == st.PerEndpoint
       IN  /\ \A n \in DOMAIN pe :
                 pe[n].TotalRequests = pe[n].SuccessCount + pe[n].ErrorCount
           /\ st.TotalRequests = SumOver([n \in DOMAIN pe |-> pe[n].TotalRequests], DOMAIN pe)
           /\ st.SuccessCount = SumOver([n \in DOMAIN pe |-> pe[n].SuccessCount], DOMAIN pe)
           /\ st.ErrorCount = SumOver([n \in DOMAIN pe |-> pe[n].ErrorCount], DOMAIN pe)

\* C22 witness: a snapshot of two endpoints, three results, one of them failed
C22_Witness ==
    /\ snap # << >>
    /\ DOMAIN snap[1].stats.PerEndpoint = { "alpha", "beta" }
    /\ snap[1].stats.TotalRequests = 3
    /\ snap[1].stats.ErrorCount = 1
    /\ snap[1].stats.PerEndpoint["beta"].TotalRequests = 2

\* ---------------------------------------------------------------- C23
\* C23: per endpoint and globally, each percentile of a snapshot is the
\* element at zero-based index floor((L-1)*p/100) of the L durations in
\* ascending order, min the first and max the last; for 1..100 ms: p50 = 50,
\* p90 = 90, p99 = 99, min = 1, max = 100.
C23_NearestRankPercentiles ==
    snap # << >>
    => LET st == snap[1].stats
           eps == snap[1].of
       IN  /\ RankedAs(st, AllOf(eps))
           /\ \A n \in DOMAIN eps : RankedAs(st.PerEndpoint[n], eps[n].durations)
           /\ eps = KnownEndpoints
              => /\ st.P50 = 50 /\ st.P90 = 90 /\ st.P99 = 99
                 /\ st.Min = 1 /\ st.Max = 100

\* C23 witness: the snapshot of the known data set
C23_Witness ==
    /\ snap # << >>
    /\ snap[1].of = KnownEndpoints
    /\ snap[1].stats.P50 = 50
    /\ snap[1].stats.P95 = 95
    /\ snap[1].stats.PerEndpoint["ep"].P99 = 99

\* ---------------------------------------------------------------- C24
\* C24: a snapshot's p50, p90, p95, p99, min, max and avg, global and per
\* endpoint, are those of any collector that holds the same results recorded
\* in another order, whatever the order the map is visited in.
C24_OrderIndependent ==
    snap # << >>
    => \A e \in Reorderings(snap[1].of), o \in Orders(DOMAIN snap[1].of) :
          LET other == Stats(e, o)
          IN  /\ LatencyFields(other) = LatencyFields(snap[1].stats)
              /\ \A n \in DOMAIN snap[1].of :
                    LatencyFields(other.PerEndpoint[n])
                      = LatencyFields(snap[1].stats.PerEndpoint[n])

\* C24 witness: a snapshot of durations that were recorded in descending order
C24_Witness ==
    /\ snap # << >>
    /\ "alpha" \in DOMAIN snap[1].of
    /\ snap[1].of["alpha"].durations = << 3, 2, 1 >>
    /\ snap[1].stats.PerEndpoint["alpha"].P50 = 2
    /\ snap[1].stats.Min = 1

\* ---------------------------------------------------------------- C25
\* C25: no result is lost or counted twice: when no Record call is in
\* progress the collector holds exactly the results of the calls that have
\* returned, and a snapshot counts every call that had returned when it took
\* the lock.
C25_RecordAtomic ==
    /\ (\A g \in Recorders : rec[g].pc = "idle")
       => /\ \A r \in DOMAIN recDone : r.EndpointName \in DOMAIN endpoints
          /\ \A n \in DOMAIN endpoints :
                /\ endpoints[n].successes = Returned(n, TRUE)
                /\ endpoints[n].errors = Returned(n, FALSE)
                /\ Len(endpoints[n].durations) = Returned(n, TRUE) + Returned(n, FALSE)
                /\ \A j \in DOMAIN endpoints[n].durations :
                      LET d == endpoints[n].durations[j]
                      IN  Cardinality({ k \in DOMAIN endpoints[n].durations :
                                          endpoints[n].durations[k] = d })
                            = ReturnedWith(n, d)
    /\ snap # << >> => snap[1].stats.TotalRequests = snap[1].returned

\* C25 witness: a snapshot taken after two calls had returned; goroutine 2
\* is now inside a third Record call and holds the lock
C25_Witness ==
    /\ snap # << >>
    /\ snap[1].returned = 2
    /\ BagCardinality(recDone) = 2
    /\ rec[2].pc = "found"
    /\ mu = 2

\* ------------------------------------------- the executor, as specified
\* the weight an endpoint counts with: a weight <= 0 counts as 1
CountedWeight(w) == IF w <= 0 THEN 1 ELSE w

\* c[i]: the counted weights of the endpoints up to the zero-based index i
RECURSIVE Cumulative(_, _)
Cumulative(ws, i) ==
    IF i < 0 THEN 0 ELSE CountedWeight(ws[i + 1]) + Cumulative(ws, i - 1)

\* the smallest zero-based index whose cumulative weight exceeds r
FirstAbove(ws, r) ==
    CHOOSE i \in 0..(Len(ws) - 1) :
        /\ Cumulative(ws, i) > r
        /\ \A h \in 0..(i - 1) : Cumulative(ws, h) <= r

\* ---------------------------------------------------------------- C26
\* C26: SelectEndpoint returns the endpoint at the smallest index whose
\* cumulative weight exceeds the draw, a weight <= 0 counting as 1: the index
\* is in range, and of the draws 0..total-1 exactly weight(i) select
\* endpoint i.
C26_SelectByCumulativeWeight ==
    selected # << >>
    => LET n == Len(exWeights)
           total == Cumulative(exWeights, n - 1)
       IN  /\ selected[1].r \in 0..(total - 1)
           /\ selected[1].idx \in 0..(n - 1)
           /\ selected[1].idx = FirstAbove(exWeights, selected[1].r)
           /\ \A r \in 0..(total - 1) :
                 SelectIndex(exWeights, r) = FirstAbove(exWeights, r)
           /\ \A i \in 0..(n - 1) :
                 Cardinality({ r \in 0..(total - 1) : SelectIndex(exWeights, r) = i })
                   = CountedWeight(exWeights[i + 1])

\* C26 witness: weights 0, 2, -1 count as 1, 2, 1; the draw 3 selects the
\* last endpoint
C26_Witness ==
    /\ exWeights = << 0, 2, -1 >>
    /\ selected = << [r |-> 3, idx |-> 2] >>

\* ---------------------------------------------------------------- C27
\* C27: a Result of Execute has success exactly when its error is nil; a
\* transport failure gives no success and status code 0; a response whose
\* status differs from a non-zero expect.status gives no success, the actual
\* status code and a mismatch error; every other response gives success and
\* no error.
C27_SuccessIffNoError ==
    result # << >>
    => LET res == result[1].res
           out == result[1].out
           expect == result[1].expect
       IN  /\ res.Success <=> res.Error = "nil"
           /\ out.kind = "transport" => (~res.Success /\ res.StatusCode = 0)
           /\ (out.kind = "response" /\ expect # 0 /\ out.status # expect)
              => (/\ ~res.Success
                  /\ res.StatusCode = out.status
                  /\ res.Error = "expected status")
           /\ (out.kind = "response" /\ (expect = 0 \/ out.status = expect))
              => (res.Success /\ res.Error = "nil" /\ res.StatusCode = out.status)

\* C27 witness: 200 expected, 404 received
C27_Witness ==
    /\ result # << >>
    /\ result[1].expect = 200
    /\ result[1].out = [kind |-> "response", status |-> 404]
    /\ result[1].res = [StatusCode |-> 404, Error |-> "expected status", Success |-> FALSE]

\* ---------------------------------------------------------------- C28
\* worker i returns with a completed Result that it has not sent
Discards(i) == wpc[i] \in { "exec", "send" } /\ wpc'[i] = "exited"

SlotHolders(g) == { t \in LiveTasks : tasks[t].gen = g }

\* C29 (as claimed): in arrival-rate mode the active level of a snapshot is
\* the number of request goroutines in flight, each of them holding a slot of
\* its dispatcher's semaphore.
C29_ActiveLevelIsInFlight ==
    cfg.mode = "arrival_rate" =>
        /\ \A t \in LiveTasks : dispatchers[tasks[t].gen].sem >= Cardinality(SlotHolders(tasks[t].gen))
        /\ Snapshot.ActiveVUs = Cardinality(LiveTasks)

\* ---------------------------------------------------------------- C30
\* C30: at most one TestRun has Status "running" at any time, and it is the
\* active one; a StartTest call that finds a test active returns nil and
\* leaves the runs, the tests and the active id as they are, whatever the
\* interleaving of StartTest calls and finishing runs; a call that finds
\* none active makes exactly one run and returns it.
C30_OneRunningTest ==
    /\ [](Cardinality(RunningTests) <= 1)
    /\ [](\A k \in RunningTests :
             state.activeID = runs[k].ID /\ state.tests[runs[k].ID] = k)
    /\ [][\A c \in Starters :
             /\ (starters[c].pc = "locked" /\ starters'[c].pc = "returned") =>
                   /\ state.activeID # ""
                   /\ starters'[c].ret = Nil
                   /\ runs' = runs
                   /\ state'.tests = state.tests
                   /\ state'.activeID = state.activeID
             /\ (starters[c].pc = "locked" /\ starters'[c].pc = "create") =>
                   state.activeID = ""
             /\ (starters[c].pc = "create" /\ starters'[c].pc = "returned") =>
                   /\ RunningTests = { }
                   /\ Len(runs') = Len(runs) + 1
                   /\ RunningTests' = { Len(runs') }
                   /\ starters'[c].ret = Run(Len(runs'))]_vars

\* C30 witness: a first run has finished, a second one is running, and a
\* StartTest call made meanwhile has returned nil
C30_Witness ==
    /\ Len(runs) = 2
    /\ runs[1].Status # "running"
    /\ runs[2].Status = "running"
    /\ \E c \in Starters : starters[c].pc = "returned" /\ starters[c].ret = Nil

\* ---------------------------------------------------------------- C31
\* C31: runVU returns only from the closed and emptied target channel, after
\* a resize to 0 that has joined every worker: when it returns the worker
\* list is empty, the level published is 0 and no worker goroutine is live.
C31_NoWorkerLiveAtReturn ==
    /\ []((cfg.mode = "vu" /\ dpc = "returned") =>
             /\ targetClosed /\ targetCh = << >>
             /\ workers = 0 /\ lastApplied = 0 /\ activeVUs = 0
             /\ RunningSlots = {})
    /\ [][(cfg.mode = "vu" /\ dpc # "returned" /\ dpc' = "returned") =>
             /\ targetClosed /\ targetCh = << >>
             /\ \A i \in Slots : Running(i) => i = Head(toRemove)]_vars

\* C31 witness: the run was not cancelled, the last target the scheduler
\* emitted was not 0, and runVU has returned after it retired a worker
C31_Witness ==
    /\ cfg.mode = "vu"
    /\ ~ctxDone
    /\ dpc = "returned"
    /\ emitted # << >> /\ emitted[Len(emitted)] # 0
    /\ \E i \in Slots : wpc[i] = "exited" /\ wCancelled[i]

\* ---------------------------------------------------------------- C32
\* C32: from the return of setDispatchRate(0) until a later setDispatchRate
\* returns, no dispatcher goroutine is live, none is registered, the active
\* level is 0 and no request goroutine is started; requests started before
\* may still be in flight.
C32_RateZeroParks ==
    /\ []((cfg.mode = "arrival_rate" /\ lastRate = 0) =>
             /\ LiveDispatchers = {}
             /\ dispatchCancel = 0
             /\ Snapshot.ActiveVUs = 0)
    /\ [][(cfg.mode = "arrival_rate" /\ lastRate = 0 /\ lastRate' = 0) =>
             /\ started' = started
             /\ Len(tasks') = Len(tasks)
             /\ dispatchers' = dispatchers \/ LiveTasks' # LiveTasks]_vars

\* C32 witness: a rate of 0 has been processed after a request was
\* dispatched; the request is still in flight and the level reads 0
C32_Witness ==
    /\ cfg.mode = "arrival_rate"
    /\ ~ctxDone
    /\ lastRate = 0
    /\ LiveTasks # {}
    /\ activeVUs = 0

\* ---------------------------------------------------------------- C33
\* the ids of the Results buffered in the results channel, oldest first
Buffered == [k \in DOMAIN resultCh |-> resultCh[k].id]

\* C33: the Results recorded, followed by those still buffered, are at any
\* time the Results the channel accepted, in the order of their sends; the
\* final snapshot is taken once, after the channel has been closed and the
\* drain goroutine has emptied it and returned, so it counts every Result
\* the channel accepted.
C33_FinalSnapshotAfterDrain ==
    /\ [](colDurations \o Buffered = sentLog)
    /\ [](finalStats # << >> =>
             /\ resultClosed /\ drainDone /\ resultCh = << >>
             /\ colDurations = sentLog
             /\ finalStats[1].TotalRequests = Len(sentLog))
    /\ [][finalStats' # finalStats =>
             /\ finalStats = << >>
             /\ resultClosed /\ drainDone /\ resultCh = << >>]_vars

\* C33 witness: the second request started was sent before the first; the
\* final snapshot is taken and both are recorded in the order of the sends
C33_Witness ==
    /\ finalStats # << >>
    /\ sentLog = << 2, 1 >>
    /\ colDurations = << 2, 1 >>
    /\ finalStats[1].TotalRequests = 2

\* ---------------------------------------------------------------- C34
\* the targets the dispatcher has taken off the target channel, in order
Taken == SubSeq(emitted, 1, Len(emitted) - Len(targetCh))

\* C34: in VU mode, whenever the dispatcher is between two resizes (at its
\* receive, or returned after the final resize to 0), the active level of a
\* snapshot is the length of the worker list, and that is the target the
\* last resize applied: the last value taken off the channel, 0 after the
\* final resize, 0 before the first.
C34_LevelIsWorkerCount ==
    (cfg.mode = "vu" /\ dpc \in { "recv", "returned" }) =>
        /\ Snapshot.ActiveVUs = workers
        /\ workers = (IF dpc = "returned" \/ Taken = << >>
                      THEN 0 ELSE Taken[Len(Taken)])

\* C34 witness: a growth to some level, then a shrink to a lower level that
\* is not 0, have been applied and the lower level is reported
C34_Witness ==
    /\ cfg.mode = "vu"
    /\ dpc = "recv"
    /\ Len(Taken) = 2
    /\ Taken[2] > 0 /\ Taken[2] < Taken[1]
    /\ activeVUs = Taken[2]

\* ---------------------------------------------------------------- C35
\* C35: a Snapshot call changes nothing in the collector (the endpoint map,
\* each stored duration sequence with its order, the counters, the active
\* level, the calls in progress), and a step of Record or SetActiveVUs
\* changes nothing in the Stats value a Snapshot call has returned.
C35_SnapshotIsolated ==
    /\ [][snap' # snap =>
             /\ endpoints' = endpoints
             /\ activeVUs' = activeVUs
             /\ << mu, rec, recDone >>' = << mu, rec, recDone >>]_vars
    /\ [][(endpoints' # endpoints \/ activeVUs' # activeVUs \/ rec' # rec) =>
             snap' = snap]_vars
    /\ [](snap # << >> =>
             \A n \in DOMAIN snap[1].of :
                /\ n \in DOMAIN endpoints
                /\ snap[1].of[n].durations
                     = SubSeq(endpoints[n].durations, 1, Len(snap[1].of[n].durations)))

\* C35 witness: a snapshot was taken of durations stored out of order; since
\* then a Result has been recorded and the level changed; the stored
\* durations are as recorded and the Stats value is the one returned
C35_Witness ==
    /\ snap # << >>
    /\ "alpha" \in DOMAIN snap[1].of
    /\ snap[1].of["alpha"].durations = << 3, 1 >>
    /\ endpoints["alpha"].durations = << 3, 1, 2 >>
    /\ snap[1].stats.TotalRequests = 2
    /\ snap[1].stats.ActiveVUs # activeVUs

\* ---------------------------------------------------------------- C36
\* worker i enters Execute
StartsRequest(i) == wpc[i] # "exec" /\ wpc'[i] = "exec"

\* a worker whose context is cancelled eventually returns from Run
CancelledWorkerReturns ==
    \A i \in Slots : (WorkerCtxDone(i) /\ Running(i)) ~> ~Running(i)

C37_RunTerminates == []~ctxDone => <>(runPc = "returned")

\* ---------------------------------------------------------------- C38
\* the dispatcher of the run's mode is at its receive, or has returned
AtReceive == IF cfg.mode = "vu" THEN dpc = "recv" ELSE apc = "recv"
DispatchReturned == IF cfg.mode = "vu" THEN dpc = "returned" ELSE apc = "returned"

\* the last target whose resize or rate change has completed, -1 if none
Applied == IF cfg.mode = "vu" THEN lastApplied ELSE lastRate

\* the target a resize or rate change in progress is for
InProgress == IF cfg.mode = "vu" THEN workers ELSE pendingRate

\* C38: the channel hands the targets over in the order they were emitted;
\* the dispatcher takes one only at its receive, the oldest, and either has
\* applied it when the step ends or is applying it and takes no other until
\* it is back at its receive, where the last target applied is the last one
\* taken; it returns only when the channel is closed and every target
\* emitted has been taken and applied, whether or not the context was
\* cancelled.
C38_TargetsAppliedInOrder ==
    /\ [](emitted = Taken \o targetCh)
    /\ [](AtReceive => Applied = (IF Taken = << >> THEN -1 ELSE Taken[Len(Taken)]))
    /\ [](DispatchReturned =>
             /\ targetClosed /\ targetCh = << >> /\ Taken = emitted
             /\ Applied = (IF cfg.mode = "vu" THEN 0
                           ELSE IF emitted = << >> THEN -1
                           ELSE emitted[Len(emitted)]))
    /\ [][Len(targetCh') < Len(targetCh) =>
             /\ AtReceive
             /\ targetCh' = Tail(targetCh)
             /\ IF AtReceive' \/ DispatchReturned'
                THEN Applied' = Head(targetCh)
                ELSE InProgress' = Head(targetCh)]_vars

\* C38 witness: the context is cancelled and no request was started; two
\* different targets were emitted and the dispatcher, back at its receive,
\* has taken both and applied the second
C38_Witness ==
    /\ ctxDone
    /\ AtReceive
    /\ started = 0
    /\ Len(emitted) = 2
    /\ Taken = emitted
    /\ Applied = emitted[2]
    /\ emitted[1] # emitted[2]

\* ---------------------------------------------------------------- C39
\* the slot dispatcher g has acquired for the request it is about to spawn
Reserved(g) == IF dispatchers[g].pc = "acquired" THEN 1 ELSE 0

\* C39: the occupancy of each dispatcher's semaphore is the number of live
\* request goroutines it spawned, plus the slot it has just acquired for the
\* one it is about to spawn, and never exceeds 2*R; a request goroutine is
\* spawned by a dispatcher that holds such a slot, and when it returns, with
\* its Result sent, suppressed or dropped, exactly one slot of that
\* dispatcher's semaphore is released and no other semaphore changes.
C39_SlotPerLiveTask ==
    /\ [](\A g \in DOMAIN dispatchers :
             /\ dispatchers[g].sem = Cardinality(SlotHolders(g)) + Reserved(g)
             /\ dispatchers[g].sem <= 2 * dispatchers[g].rps)
    /\ [][Len(tasks') # Len(tasks) =>
             /\ Len(tasks') = Len(tasks) + 1
             /\ LET g == tasks'[Len(tasks')].gen
                IN  /\ dispatchers[g].pc = "acquired"
                    /\ dispatchers'[g].pc # "acquired"
                    /\ \A h \in DOMAIN dispatchers :
                          dispatchers'[h].sem = dispatchers[h].sem]_vars
    /\ [][\A t \in LiveTasks :
             t \notin LiveTasks' =>
                \A h \in DOMAIN dispatchers :
                   dispatchers'[h].sem =
                      dispatchers[h].sem - (IF h = tasks[t].gen THEN 1 ELSE 0)]_vars

\* C39 witness: the first dispatcher has returned and a request it spawned
\* is still in flight, holding the one occupied slot of its semaphore; the
\* second dispatcher's semaphore holds the slot of its own request
C39_Witness ==
    /\ Len(dispatchers) = 2
    /\ dispatchers[1].pc = "exited"
    /\ dispatchers[1].sem = 1 /\ Cardinality(SlotHolders(1)) = 1
    /\ dispatchers[2].sem = 1 /\ Cardinality(SlotHolders(2)) = 1

\* ---------------------------------------------------------------- C40
\* C40 (as claimed): Run emits nothing before its first tick, and its first
\* tick always emits the target computed, 0 included.
C40_FirstTickAlwaysEmits ==
    /\ [](elapsed = 0 => emitted = << >>)
    /\ []((elapsed > 0 /\ spc # "send") => emitted # << >>)

\* C40 (amended): while the context is live Run emits nothing before its
\* first tick; cancelled before it, Run emits at most the final 0 of
\* sendFinal and returns. The first tick always calls for a send of the
\* target computed, 0 included (lastSent starts at -1), the channel has room
\* for it, and the first value emitted after a tick is that target; only a
\* cancel seen by sendIfChanged's select lets Run return with nothing
\* emitted.
C40_FirstTickEmitsUnlessCancelled ==
    /\ []((elapsed = 0 /\ emitted # << >>) =>
             (ctxDone /\ emitted = << 0 >> /\ spc = "returned"))
    /\ [][(elapsed = 0 /\ elapsed' > 0) =>
             /\ emitted = << >>
             /\ spc' = "send"
             /\ pending'.target = targetAt(cfg.stages, elapsed', cfg.fma).target]_vars
    /\ []((spc = "send" /\ emitted = << >> /\ ~panicked) => ENABLED SchedSend)
    /\ [][(elapsed > 0 /\ emitted = << >> /\ emitted' # << >>) =>
             (spc = "send" /\ emitted' = << pending.target >>)]_vars
    /\ []((elapsed > 0 /\ spc # "send" /\ emitted = << >>) =>
             (ctxDone /\ spc = "returned"))

\* C40 witness: the context is live, the first tick computed 0 and that 0
\* is the one value emitted so far
C40_Witness ==
    /\ ~ctxDone
    /\ elapsed = 1
    /\ spc = "run"
    /\ emitted = << 0 >>
    /\ lastSent = 0

====
